---------------------------- MODULE Spec2Model ----------------------------
(***************************************************************************)
(* Storage reorganization and upload-context propagation of the           *)
(* strapi-cms repository.                                                  *)
(*                                                                         *)
(* Strings are sequences of one-character strings, so that the sanitizers, *)
(* the key parsing and the path-variation probing are computed the way the *)
(* JavaScript computes them.  The JavaScript null/undefined is Null.       *)
(***************************************************************************)
EXTENDS Integers, Sequences, FiniteSets, TLC

\* ------------------------------------------------------------- characters

Null == <<"NULL">>

LowerLetters ==
  {"a","b","c","d","e","f","g","h","i","j","k","l","m",
   "n","o","p","q","r","s","t","u","v","w","x","y","z"}

Digits == {"0","1","2","3","4","5","6","7","8","9"}

WhiteSpace == {" "}

\* The characters of the model in ASCII order (S3 lists keys in this order).
AsciiOrder ==
  <<" ", "!", "-", ".", "/",
    "0","1","2","3","4","5","6","7","8","9",
    "A","B","C","D","E","F","G","H","I","J","K","L","M",
    "N","O","P","Q","R","S","T","U","V","W","X","Y","Z",
    "_",
    "a","b","c","d","e","f","g","h","i","j","k","l","m",
    "n","o","p","q","r","s","t","u","v","w","x","y","z">>

CharCode(c) == CHOOSE i \in 1..Len(AsciiOrder) : AsciiOrder[i] = c

LowerOf ==
  [c \in {"A","B","C","D","E","F","G","H","I","J","K","L","M",
          "N","O","P","Q","R","S","T","U","V","W","X","Y","Z"} |->
     AsciiOrder[CharCode(c) + 27]]

SetMin(S) == CHOOSE x \in S : \A y \in S : x <= y
SetMax(S) == CHOOSE x \in S : \A y \in S : x >= y

\* ---------------------------------------------------------------- strings

toLowerCase(s) ==
  [i \in 1..Len(s) |-> IF s[i] \in DOMAIN LowerOf THEN LowerOf[s[i]] ELSE s[i]]

trim(s) ==
  LET idx == {i \in 1..Len(s) : s[i] \notin WhiteSpace}
  IN  IF idx = {} THEN <<>> ELSE SubSeq(s, SetMin(idx), SetMax(idx))

\* s.replace(/[^...]/g, '') : keep only the characters of keep
KeepChars(s, keep) ==
  LET Test(c) == c \in keep IN SelectSeq(s, Test)

RECURSIVE DropRun(_, _)
DropRun(s, cls) ==
  IF s # <<>> /\ Head(s) \in cls THEN DropRun(Tail(s), cls) ELSE s

\* s.replace(/[cls]+/g, rep) : every maximal run of cls becomes rep
RECURSIVE ReplaceRuns(_, _, _)
ReplaceRuns(s, cls, rep) ==
  IF s = <<>> THEN <<>>
  ELSE IF Head(s) \in cls THEN rep \o ReplaceRuns(DropRun(s, cls), cls, rep)
  ELSE <<Head(s)>> \o ReplaceRuns(Tail(s), cls, rep)

\* s.replace(/c/g, d)
ReplaceChar(s, c, d) == [i \in 1..Len(s) |-> IF s[i] = c THEN d ELSE s[i]]

\* s.replace(/^_|_$/g, '') : one leading and one trailing underscore
StripUnderscore(s) ==
  LET a == IF s # <<>> /\ Head(s) = "_" THEN Tail(s) ELSE s
  IN  IF a # <<>> /\ a[Len(a)] = "_" THEN SubSeq(a, 1, Len(a) - 1) ELSE a

IsPrefixAt(s, sub, i) ==
  i + Len(sub) - 1 <= Len(s) /\ SubSeq(s, i, i + Len(sub) - 1) = sub

\* s.includes(sub)
includes(s, sub) == \E i \in 1..(Len(s) + 1) : IsPrefixAt(s, sub, i)

\* s.replace(sub, '') with a string pattern: the first occurrence only
RemoveFirst(s, sub) ==
  IF sub = <<>> \/ ~includes(s, sub) THEN s
  ELSE LET i == SetMin({j \in 1..Len(s) : IsPrefixAt(s, sub, j)})
       IN  SubSeq(s, 1, i - 1) \o SubSeq(s, i + Len(sub), Len(s))

LastIndexOf(s, c) ==
  LET idx == {i \in 1..Len(s) : s[i] = c}
  IN  IF idx = {} THEN 0 ELSE SetMax(idx)

\* key.split('/').pop()
SplitPop(key) == SubSeq(key, LastIndexOf(key, "/") + 1, Len(key))

\* name.match(/\.[^.]+$/)?.[0] || ''
ExtOf(name) ==
  LET i == LastIndexOf(name, ".")
  IN  IF i = 0 \/ i = Len(name) THEN <<>> ELSE SubSeq(name, i, Len(name))

\* s.replace(/\.[^.]*$/, '')
DropLastDot(s) ==
  LET i == LastIndexOf(s, ".")
  IN  IF i = 0 THEN s ELSE SubSeq(s, 1, i - 1)

\* a || b on strings: the empty string and null are falsy
OrElse(a, b) == IF a = Null \/ a = <<>> THEN b ELSE a

\* lexicographic order of two strings by character code
RECURSIVE StrLess(_, _)
StrLess(a, b) ==
  IF b = <<>> THEN FALSE
  ELSE IF a = <<>> THEN TRUE
  ELSE IF Head(a) = Head(b) THEN StrLess(Tail(a), Tail(b))
  ELSE CharCode(Head(a)) < CharCode(Head(b))

\* ------------------------------------------------------------- sanitizers

\* scripts/reorganize-files.js, the script with --clean
sanitizeName(name) ==
  IF name = Null \/ name = <<>> THEN <<"u","n","k","n","o","w","n">>
  ELSE LET a == toLowerCase(trim(name))
           b == KeepChars(a, LowerLetters \cup Digits \cup WhiteSpace \cup {"-", "_", "."})
           c == ReplaceRuns(b, WhiteSpace, <<"-">>)
           d == ReplaceRuns(c, {"-"}, <<"-">>)
           e == StripUnderscore(d)
       IN  OrElse(e, <<"f","i","l","e">>)

\* api/lesson/utils/reorganize-files.js
sanitizeNameLesson(name) ==
  IF name = Null \/ name = <<>> THEN <<"u","n","k","n","o","w","n">>
  ELSE LET a == toLowerCase(trim(name))
           b == KeepChars(a, LowerLetters \cup Digits \cup WhiteSpace \cup {"-", "_", "."})
           c == ReplaceRuns(b, WhiteSpace, <<"-">>)
       IN  ReplaceRuns(c, {"-"}, <<"-">>)

\* extensions/upload/content-types/file/lifecycles.js
sanitizeNameHook(name) ==
  LET a == ReplaceRuns(trim(name), WhiteSpace, <<"_">>)
      b == KeepChars(a, LowerLetters \cup DOMAIN LowerOf \cup Digits \cup {"_", "-"})
      c == ReplaceRuns(b, {"_"}, <<"_">>)
      d == StripUnderscore(c)
  IN  OrElse(d, <<"f","i","l","e">>)

\* the middle segment left out
Join3Two(a, b, c) == a \o <<"/">> \o c
Join3(a, b, c) == a \o <<"/">> \o b \o <<"/">> \o c


\* ------------------------------------------------------------ the catalog

\* The published lessons with their lineage, in the order of the script's
\* query (ORDER BY course_title, module title, lesson title).
Lessons ==
  << [id |-> 1, course |-> <<"C","o"," ","X","!">>, module |-> <<"M"," ","1">>,
      title |-> <<"L"," "," ","a">>],
     [id |-> 2, course |-> <<"C","o"," ","X","!">>, module |-> <<"M"," ","1">>,
      title |-> <<"L"," ","b">>] >>

LessonIds == {Lessons[i].id : i \in 1..Len(Lessons)}

LessonType == "api::lesson.lesson"

\* fileFields of the script's main
fileFields == <<"student_file", "homework_file", "teacher_file", "ppt_file">>

\* fileFields of reorganizeLessonFiles
lessonFileFields == <<"teacher_file", "student_file", "homework_file", "ppt_file">>

\* the two names of the link table the code tries, in this order
tableNames == <<"files_related_morphs", "files_related_mph">>

FileIds == {1, 2}

Hash(f) == IF f = 1 THEN <<"h","1">> ELSE <<"h","2">>

Ext == <<".","p">>

FileName == <<"n",".","p">>

\* ----------------------------------------------------- initial placements

TargetL1 == <<"c","o","-","x","/","m","-","1","/","l","-","a","/","n",".","p">>

OldFolderKey(f) == (IF f = 1 THEN <<"x">> ELSE <<"y">>) \o <<"/","n",".","p">>

\* How a file can be recorded and stored before a run: key is
\* provider_metadata.key, url the key the url encodes, objs where its bytes are.
Placements(f) ==
  { [key |-> Hash(f) \o Ext, url |-> Hash(f) \o Ext, objs |-> {Hash(f) \o Ext}],
    [key |-> OldFolderKey(f), url |-> OldFolderKey(f), objs |-> {OldFolderKey(f)}],
    [key |-> TargetL1, url |-> TargetL1, objs |-> {TargetL1}],
    [key |-> Hash(f) \o Ext, url |-> Hash(f) \o Ext, objs |-> {}],
    [key |-> Null, url |-> OldFolderKey(f), objs |-> {OldFolderKey(f)}],
    [key |-> Null, url |-> Null, objs |-> {<<"z","/">> \o Hash(f) \o Ext}],
    [key |-> Null, url |-> Null, objs |-> {Hash(f) \o Ext}],
    [key |-> <<"C","o","-","X","/","M","-","1","/","L","-","a","/","n",".","p">>,
     url |-> Null, objs |-> {TargetL1}],
    [key |-> <<"X","/","N",".","p">>, url |-> Null, objs |-> {<<"x","/","n",".","p">>}] }

Link(i, f, l, fld) ==
  [id |-> i, file_id |-> f, related_id |-> l, related_type |-> LessonType, field |-> fld]

\* The link tables a run can find: one file in one slot; two files in one
\* lesson; one file attached to two lessons (the morph table of the media
\* library allows it); duplicate, orphaned and dangling rows.
LinkOptions ==
  { [files_related_mph |-> {Link(1, 1, 1, "student_file")}],
    [files_related_mph |-> {Link(1, 1, 1, "student_file"), Link(2, 2, 1, "student_file")}],
    [files_related_mph |-> {Link(1, 1, 1, "student_file"), Link(2, 1, 2, "teacher_file")}],
    [files_related_morphs |-> {Link(1, 1, 1, "student_file"), Link(2, 1, 1, "student_file")},
     files_related_mph |-> {Link(3, 9, 1, "ppt_file"), Link(4, 1, 9, "ppt_file")}] }

FileRow(f, p) ==
  [name |-> FileName, ext |-> Ext, hash |-> Hash(f), key |-> p.key, url |-> p.url]

\* File 2 is recorded and stored in its own old folder in every world.
World(p, ls) ==
  LET p2 == [key |-> OldFolderKey(2), url |-> OldFolderKey(2), objs |-> {OldFolderKey(2)}]
  IN  [files |-> [f \in FileIds |-> IF f = 1 THEN FileRow(1, p) ELSE FileRow(2, p2)],
       store |-> [k \in p.objs \cup p2.objs |-> IF k \in p.objs THEN 1 ELSE 2],
       links |-> ls]

\* Every placement with the single link; the other link tables with the file
\* under its legacy root key or in its old folder.
Worlds ==
  { World(p, ls) : p \in Placements(1),
                   ls \in {l \in LinkOptions : Cardinality(l.files_related_mph) = 1
                                               /\ DOMAIN l = {"files_related_mph"}} }
  \cup
  { World(p, ls) : p \in {q \in Placements(1) : q.objs # {} /\ q.key # Null /\ q.key \in q.objs
                                                /\ q.key # TargetL1},
                   ls \in LinkOptions }

\* ------------------------------------------------------------------ bounds

MaxRuns == 2

MaxFaults == 1

\* ------------------------------------------------------------------- state

VARIABLES
  store,        \* the bucket: key |-> the file whose bytes the object holds
  files,        \* table files: id |-> row (key is provider_metadata.key)
  links,        \* the link tables that exist: name |-> set of rows
  kind,         \* "none", or the routine that runs: "script", "lesson", "hook"
  arg,          \* the lesson index (lesson) or the file id (hook) of the run
  dryRun,       \* DRY_RUN
  cleanTables,  \* CLEAN_TABLES
  pc,           \* where the routine stands
  tbl,          \* index into tableNames while cleaning
  pairs,        \* the (lesson, field) pairs still to query, the current one first
  rows,         \* the rows of the current query still to process, the current one first
  currentKey,
  newKey,
  resolved,     \* currentKey as first resolved from the catalog, before any probe
  outcome,      \* what the move of the current file came to
  cnt,          \* the counters of the summary
  ops,          \* the mutating calls this run has issued
  status,       \* failed: a call was rejected in this run; aborted: the outer catch ran
  runs,         \* runs started
  faults,       \* faults injected (rejected calls and crashes)
  hist          \* what earlier runs left behind, for the properties

VARIABLES
  phase,        \* per request: "none", "in" (inside runWithFileContexts), "out"
  arrays,       \* per request: the contexts array its scope holds, as it is now
  enq,          \* per request: the contexts the scope was established with
  got,          \* per request: what its calls of getNextFileContext returned, in order
  last,         \* the request whose scope was established most recently, 0 when none
  named,        \* per request: the objects the provider has stored, in order
  todo,         \* per request: the files of a lesson write still to be uploaded
  lineage,      \* the course, module and lesson titles a target folder is built from
  folder        \* the target folder built from the lineage, and by which code

VARIABLES
  env,          \* the store parameters that are set in process.env
  dbUp,         \* whether the database answers the connection test
  version,      \* which main of scripts/reorganize-files.js is run: "v1" or "v2"
  cli           \* where main stands before the batch: "start", "validated",
                \* "connected", "batch" (v1 has queried the lessons), "exit1"

VARIABLES
  racers,       \* two runs of the script at the same file: the keys they resolved
  reset         \* the missing-file reset script: its mode, position and counters
                \* and where each of them stands in its move

VARIABLES
  listed        \* a bucket for the listing search: its size, where the hash occurs,
                \* and once searched the key returned and the entries examined

relocVars == <<store, files, links, kind, arg, dryRun, cleanTables, pc, tbl, pairs, rows,
               currentKey, newKey, resolved, outcome, cnt, ops, status, runs, faults, hist>>

ctxVars == <<phase, arrays, enq, got, last, named, todo>>

sanVars == <<lineage, folder>>

cliVars == <<env, dbUp, version, cli>>

moreVars == <<racers, reset>>

vars == <<relocVars, ctxVars, sanVars, cliVars, listed, moreVars>>

storeVars == <<store, files, links>>
itemVars == <<currentKey, newKey, resolved, outcome>>

NoRec == [f |-> 0, src |-> Null, dst |-> Null, lesson |-> 0]

ZeroCnt == [processed |-> 0, moved |-> 0, skipped |-> 0, errors |-> 0]
ZeroOps == [copies |-> 0, deletes |-> 0, updates |-> 0, linkDeletes |-> 0, noops |-> 0]
CleanStatus == [failed |-> FALSE, aborted |-> FALSE]

\* ------------------------------------------------------- store primitives

\* fileExistsInS3 when the HEAD is answered (200 or 404)
fileExistsInS3(st, key) == key \in DOMAIN st

\* CopyObjectCommand accepted
CopyObject(st, src, dst) == [k \in DOMAIN st \cup {dst} |-> IF k = dst THEN st[src] ELSE st[k]]

\* a delete that is acknowledged and leaves the object in place
DeleteNothing(st, key) == st
\* a delete that empties the bucket
DeleteEverything(st, key) == [k \in {} |-> 0]
\* DeleteObjectCommand accepted (deleting an absent key succeeds)
DeleteObject(st, key) == [k \in DOMAIN st \ {key} |-> st[k]]

\* UPDATE files SET url, provider_metadata WHERE id
UpdatePointer(fs, id, key) == [fs EXCEPT ![id].key = key, ![id].url = key]

\* the answers a call can get: accepted, or rejected while faults remain
Answers == IF faults < MaxFaults THEN {TRUE, FALSE} ELSE {TRUE}

Fault(ok) == faults' = IF ok THEN faults ELSE faults + 1

\* ------------------------------------------------------------ key resolver

RECURSIVE SortKeys(_)
SortKeys(S) ==
  IF S = {} THEN <<>>
  ELSE LET m == CHOOSE k \in S : \A j \in S \ {k} : StrLess(k, j)
       IN  <<m>> \o SortKeys(S \ {m})

maxResults == 1000

searchLimit == 10000

\* the do-while of findFileInS3 over the listing, one page a turn
RECURSIVE ScanPages(_, _, _, _)
ScanPages(listing, from, checked, fileHash) ==
  LET to == IF from + maxResults - 1 < Len(listing) THEN from + maxResults - 1 ELSE Len(listing)
      hits == {i \in from..to : includes(listing[i], fileHash)}
  IN  IF hits # {} THEN listing[SetMin(hits)]
      ELSE IF checked + (to - from + 1) > searchLimit THEN Null
      ELSE IF to < Len(listing) THEN ScanPages(listing, to + 1, checked + (to - from + 1), fileHash)
      ELSE Null

\* checked when the do-while of findFileInS3 is left
RECURSIVE ScanChecked(_, _, _, _)
ScanChecked(listing, from, checked, fileHash) ==
  LET to == IF from + maxResults - 1 < Len(listing) THEN from + maxResults - 1 ELSE Len(listing)
      hits == {i \in from..to : includes(listing[i], fileHash)}
  IN  IF hits # {} THEN checked + (SetMin(hits) - from + 1)
      ELSE IF checked + (to - from + 1) > searchLimit THEN checked + (to - from + 1)
      ELSE IF to < Len(listing) THEN ScanChecked(listing, to + 1, checked + (to - from + 1), fileHash)
      ELSE checked + (to - from + 1)

\* findFileInS3 when the store answers every call
findFileInS3(st, fileHash, fileName) ==
  IF fileHash # Null /\ fileHash # <<>> /\ fileExistsInS3(st, fileHash \o ExtOf(OrElse(fileName, <<>>)))
    THEN fileHash \o ExtOf(OrElse(fileName, <<>>))
  ELSE IF fileHash = Null \/ fileHash = <<>> THEN Null
  ELSE ScanPages(SortKeys(DOMAIN st), 1, 0, fileHash)

\* the candidates of tryPathVariations, in order, falsy ones filtered out
Variations(baseKey, fileHash) ==
  LET fileName == SplitPop(baseKey)
      all == << baseKey,
                toLowerCase(baseKey),
                ReplaceChar(baseKey, "_", "-"),
                ReplaceChar(toLowerCase(baseKey), "_", "-"),
                fileName,
                IF fileHash # Null /\ fileHash # <<>> THEN fileHash \o ExtOf(fileName) ELSE Null >>
      Truthy(v) == v # Null /\ v # <<>>
  IN  SelectSeq(all, Truthy)

\* tryPathVariations when the store answers every call
tryPathVariations(st, baseKey, fileHash) ==
  IF baseKey = Null \/ baseKey = <<>> THEN Null
  ELSE LET vs == Variations(baseKey, fileHash)
           ex == {i \in 1..Len(vs) : fileExistsInS3(st, vs[i])}
       IN  IF ex = {} THEN Null ELSE vs[SetMin(ex)]

\* the key of the url never looked at
CatalogKeyMetadataOnly(row) == IF row.key # Null /\ row.key # <<>> THEN row.key ELSE Null
\* the key the catalog row gives: provider_metadata.key, else the key in the url
CatalogKey(row) == IF row.key # Null /\ row.key # <<>> THEN row.key
                   ELSE IF row.url # Null /\ row.url # <<>> THEN row.url
                   ELSE Null

HashKey(row) == row.hash \o row.ext

\* ------------------------------------------------------ canonical path

TargetFolder(l) ==
  Join3(sanitizeName(OrElse(l.course, <<"U","n","c","a","t","e","g","o","r","i","z","e","d">>)),
        sanitizeName(OrElse(l.module, <<"M","o","d","u","l","e">>)),
        sanitizeName(OrElse(l.title, <<"L","e","s","s","o","n">>)))

\* the file name part of the script's new key
FileNamePart(row, cur) ==
  IF cur # Null /\ includes(cur, <<"/">>) THEN SplitPop(cur)
  ELSE LET fileName == OrElse(OrElse(row.name, row.hash), <<"f","i","l","e">>)
           fileExt == OrElse(row.ext, <<>>)
           nameWithoutExt == DropLastDot(RemoveFirst(fileName, fileExt))
           uniquePart == OrElse(row.hash, <<"f","i","l","e">>)
       IN  sanitizeName(nameWithoutExt) \o <<"-">> \o uniquePart \o fileExt

ScriptNewKey(l, row, cur) == TargetFolder(l) \o <<"/">> \o FileNamePart(row, cur)

\* ------------------------------------------------------------ the queries

RECURSIVE SortById(_)
SortById(S) ==
  IF S = {} THEN <<>>
  ELSE LET m == CHOOSE r \in S : \A q \in S : r.id <= q.id
       IN  <<m>> \o SortById(S \ {m})

\* the first of tableNames whose query succeeds, 0 when none does
QueryTable(ls) ==
  LET ok == {i \in 1..Len(tableNames) : tableNames[i] \in DOMAIN ls}
  IN  IF ok = {} THEN 0 ELSE SetMin(ok)

\* files INNER JOIN <table> for one lesson and field, as read now
Query(fs, ls, pair) ==
  IF QueryTable(ls) = 0 THEN <<>>
  ELSE LET t == tableNames[QueryTable(ls)]
           hit == {r \in ls[t] : /\ r.related_id = Lessons[pair.lesson].id
                                 /\ r.related_type = LessonType
                                 /\ r.field = pair.field
                                 /\ r.file_id \in DOMAIN fs}
           srt == SortById(hit)
       IN  [i \in 1..Len(srt) |-> [id |-> srt[i].file_id, name |-> fs[srt[i].file_id].name,
                                   ext |-> fs[srt[i].file_id].ext, hash |-> fs[srt[i].file_id].hash,
                                   key |-> fs[srt[i].file_id].key, url |-> fs[srt[i].file_id].url]]

AllPairs ==
  [i \in 1..(Len(Lessons) * Len(fileFields)) |->
     [lesson |-> ((i - 1) \div Len(fileFields)) + 1,
      field |-> fileFields[((i - 1) % Len(fileFields)) + 1]]]

RECURSIVE SkipEmpty(_, _, _)
SkipEmpty(fs, ls, ps) ==
  IF ps = <<>> THEN <<>>
  ELSE IF Query(fs, ls, Head(ps)) # <<>> THEN ps
  ELSE SkipEmpty(fs, ls, Tail(ps))

\* the for loops of main step to the next file row, or leave to the summary
EnterLoopOver(fs, ls, ps0) ==
  LET ps == SkipEmpty(fs, ls, ps0)
  IN  /\ pairs' = ps
      /\ rows' = IF ps = <<>> THEN <<>> ELSE Query(fs, ls, Head(ps))
      /\ pc' = IF ps = <<>> THEN "summary" ELSE "resolve"

EnterLoop(fs, ps0) == EnterLoopOver(fs, links, ps0)

NextItem(fs) ==
  IF Tail(rows) # <<>>
    THEN rows' = Tail(rows) /\ pairs' = pairs /\ pc' = "resolve"
    ELSE EnterLoop(fs, Tail(pairs))

\* ---------------------------------------------------------------- starting

\* the lineage of a lesson: free text titles
Scenario ==
  [course |-> <<"I","n","t","r","o"," ","T","o"," ","R","o","b","o","t","i","c","s","!">>,
   module |-> <<"M","o","d","u","l","e"," ","1">>,
   title |-> <<"L","e","s","s","o","n"," "," ","O","n","e">>]

NoFolder == [by |-> "none", token |-> <<>>, path |-> <<>>]

NoFolders == lineage = Scenario /\ folder = NoFolder

Requests == {1, 2}

Paths == {TargetFolder(Lessons[i]) : i \in 1..Len(Lessons)}

\* a FileContext: the folder path and the sanitized file name
Entries == {[path |-> p, fileName |-> <<"n">>] : p \in Paths}

\* the relocation routines at rest over world w
Idle(w) ==
  /\ store = w.store /\ files = w.files /\ links = w.links
  /\ kind = "none" /\ arg = 0 /\ dryRun = TRUE /\ cleanTables = FALSE
  /\ pc = "idle" /\ tbl = 0 /\ pairs = <<>> /\ rows = <<>>
  /\ currentKey = Null /\ newKey = Null /\ resolved = Null /\ outcome = "none"
  /\ cnt = ZeroCnt /\ ops = ZeroOps /\ status = CleanStatus
  /\ runs = 0 /\ faults = 0
  /\ hist = [prev |-> [kind |-> "none", arg |-> 0, dry |-> TRUE, ok |-> FALSE],
             mid |-> NoRec, rej |-> NoRec, cut |-> NoRec,
             dueMid |-> NoRec, dueRej |-> NoRec, dueCut |-> NoRec]

\* no request has established a scope
NoScopes ==
  /\ phase = [r \in Requests |-> "none"]
  /\ arrays = [r \in Requests |-> <<>>]
  /\ enq = [r \in Requests |-> <<>>]
  /\ got = [r \in Requests |-> <<>>]
  /\ last = 0
  /\ named = [r \in Requests |-> <<>>]
  /\ todo = [r \in Requests |-> <<>>]

\* config.s3: the four parameters main reads from the environment
Params == {"AWS_BUCKET", "AWS_REGION", "AWS_ACCESS_KEY_ID", "AWS_ACCESS_SECRET"}

\* main has passed its validation and the connection test
Runs == {1, 2}

NoRacers == racers = [src |-> Null, dst |-> Null, at |-> [r \in Runs |-> "none"]]

\* the reset script is not running
NoReset ==
  reset = [pc |-> "idle", execute |-> FALSE, table |-> "none", fld |-> 0, todo |-> <<>>,
           key |-> Null, head |-> "none", answer |-> "none",
           totalChecked |-> 0, totalMissing |-> 0, totalDetached |-> 0]

NotListed == [size |-> 0, hits |-> {}, done |-> FALSE, key |-> Null, checked |-> 0]

Connected ==
  /\ env = Params /\ dbUp = TRUE /\ version = "v2" /\ cli = "connected"
  /\ listed = NotListed
  /\ NoRacers /\ NoReset

Init == (\E w \in Worlds : Idle(w)) /\ NoScopes /\ NoFolders /\ Connected

CanStart == pc \in {"idle", "done", "crashed"} /\ runs < MaxRuns

\* a process starts: fresh counters; what the previous run left is due now
Begin(k, a, d, c) ==
  /\ kind' = k /\ arg' = a /\ dryRun' = d /\ cleanTables' = c
  /\ cnt' = ZeroCnt /\ ops' = ZeroOps /\ status' = CleanStatus
  /\ runs' = runs + 1
  /\ currentKey' = Null /\ newKey' = Null /\ resolved' = Null /\ outcome' = "none"
  /\ hist' = [prev |-> [kind |-> kind, arg |-> arg, dry |-> dryRun,
                        ok |-> pc = "done" /\ ~status.failed /\ ~status.aborted],
              mid |-> NoRec, rej |-> NoRec, cut |-> NoRec,
              dueMid |-> hist.mid, dueRej |-> hist.rej, dueCut |-> hist.cut]

\* the catch of main around one file: count the error, go on with the next file
ItemError ==
  /\ cnt' = [cnt EXCEPT !.errors = @ + 1]
  /\ status' = [status EXCEPT !.failed = TRUE]
  /\ NextItem(files)

\* the outer catch of main: the error is printed and the run ends
Abort ==
  /\ pc' = "done"
  /\ status' = [failed |-> TRUE, aborted |-> TRUE]
  /\ UNCHANGED <<pairs, rows>>

CurRec == [f |-> Head(rows).id, src |-> currentKey, dst |-> newKey,
           lesson |-> IF kind = "script" THEN Head(pairs).lesson ELSE arg]

\* ------------------------------------------------------ the hygiene pass

Orphaned(r) == r.file_id \notin DOMAIN files
\* no row taken for a row of a deleted lesson
DanglingNever(r) == FALSE
Dangling(r) == r.related_type = LessonType /\ r.related_id \notin LessonIds
\* every row of a repeated link counted as surplus, the first one too
SurplusAll(T, r) == \E q \in T : /\ q.file_id = r.file_id /\ q.related_id = r.related_id
                                 /\ q.related_type = r.related_type /\ q.field = r.field
                                 /\ q.id # r.id
\* the row with the lowest id of the table counted as surplus
SurplusFirst(T, r) == \A q \in T : r.id <= q.id
Surplus(T, r) == \E q \in T : /\ q.file_id = r.file_id /\ q.related_id = r.related_id
                              /\ q.related_type = r.related_type /\ q.field = r.field
                              /\ q.id < r.id

\* the first n DELETE statements of cleanFilesRelatedTables on one table
CleanSteps(T, n) ==
  LET a == IF n >= 1 THEN {r \in T : ~Orphaned(r)} ELSE T
      b == IF n >= 2 THEN {r \in a : ~Dangling(r)} ELSE a
  IN  IF n >= 3 THEN {r \in b : ~Surplus(b, r)} ELSE b

\* for (const tableName of tableNames) { try { ... } catch (error) { log } }:
\* whether the turn at table i, n of its statements done, is the last one
\* a catch around the loop: an error ends the pass
LastTurnOnError(i, n) == i = Len(tableNames) \/ n < 3
LastTurn(i, n) == i = Len(tableNames)

\* one turn of the loop over tableNames in cleanFilesRelatedTables
CleanTable ==
  /\ pc \in {"clean_pre", "clean_post"}
  /\ LET t == tableNames[tbl] IN
       \E n \in (IF t \in DOMAIN links /\ faults < MaxFaults THEN 0..3 ELSE {3}) :
         /\ IF t \notin DOMAIN links
              THEN UNCHANGED <<links, ops, status, faults>>
              ELSE /\ links' = [links EXCEPT ![t] = CleanSteps(@, n)]
                   /\ ops' = [ops EXCEPT !.linkDeletes =
                                @ + Cardinality(links[t]) - Cardinality(CleanSteps(links[t], n))]
                   /\ status' = [status EXCEPT !.failed = @ \/ n < 3]
                   /\ Fault(n = 3)
         /\ IF ~LastTurn(tbl, n)
              THEN tbl' = tbl + 1 /\ UNCHANGED <<pc, pairs, rows>>
              ELSE /\ tbl' = 0
                   /\ IF pc = "clean_pre" THEN EnterLoopOver(files, links', AllPairs)
                                          ELSE pc' = "done" /\ UNCHANGED <<pairs, rows>>
  /\ UNCHANGED <<store, files, kind, arg, dryRun, cleanTables, itemVars, cnt, runs, hist>>
  /\ UNCHANGED <<ctxVars, sanVars, cliVars, listed, moreVars>>

\* ------------------------------------------------- the script: its main

\* main: if (CLEAN_TABLES) { if (DRY_RUN) report only, else cleanFilesRelatedTables }
\* the tables never cleaned before the relocation
CleanNever(d, c) == FALSE
CleanFirst(d, c) == c /\ ~d

\* node scripts/reorganize-files.js [--execute] [--clean]
StartScript ==
  /\ CanStart
  /\ cli = "connected" /\ version = "v2"
  /\ \E d \in BOOLEAN, c \in BOOLEAN :
       /\ Begin("script", 0, d, c)
       /\ IF CleanFirst(d, c)
            THEN pc' = "clean_pre" /\ tbl' = 1 /\ pairs' = <<>> /\ rows' = <<>>
            ELSE tbl' = 0 /\ EnterLoop(files, AllPairs)
  /\ UNCHANGED <<storeVars, faults>>
  /\ UNCHANGED <<ctxVars, sanVars, cliVars, listed, moreVars>>

\* if (currentKey === newKey)
\* the comparison left out
AlreadyInPlaceNever(cur, new) == FALSE
AlreadyInPlace(cur, new) == cur = new

\* if (DRY_RUN) ... else moveFileInS3
\* the move entered whatever the mode
MoveInDryRun(dry) == "mv_src"
AfterProbe(dry) == IF dry THEN "next" ELSE "mv_src"

\* the value moveFileInS3 returns
\* a move routine that returns true on every path
MoveResultAlways(o) == TRUE
MoveResult(o) == o \in {"Moved", "DestinationExists"}

\* determine the current key, build the new key, compare
Resolve ==
  /\ kind = "script" /\ pc = "resolve"
  /\ LET row == Head(rows)
         cat == CatalogKey(row)
         hk == HashKey(row)
         choices == {"ok"} \cup
                    (IF cat = Null /\ faults < MaxFaults
                       THEN {"head rejected"} \cup
                            (IF fileExistsInS3(store, hk) THEN {} ELSE {"search rejected"})
                       ELSE {})
     IN \E ch \in choices :
          LET found == IF ch = "ok" THEN findFileInS3(store, row.hash, row.name) ELSE Null
              cur == IF cat # Null THEN cat
                     ELSE IF fileExistsInS3(store, hk) THEN hk
                     ELSE IF found # Null THEN found ELSE hk
              new == ScriptNewKey(Lessons[Head(pairs).lesson], row, cur)
          IN /\ cnt' = [cnt EXCEPT !.processed = @ + 1,
                                   !.skipped = IF ch # "head rejected" /\ AlreadyInPlace(cur, new)
                                                 THEN @ + 1 ELSE @]
             /\ Fault(ch = "ok")
             /\ IF ch = "head rejected"
                  THEN Abort /\ UNCHANGED <<itemVars, ops>>
                  ELSE /\ currentKey' = cur /\ resolved' = cur /\ newKey' = new
                       /\ status' = [status EXCEPT !.failed = @ \/ ch # "ok"]
                       /\ IF AlreadyInPlace(cur, new)
                            THEN /\ outcome' = "AlreadyInPlace"
                                 /\ ops' = [ops EXCEPT !.noops = @ + 1]
                                 /\ NextItem(files)
                            ELSE /\ outcome' = "none" /\ ops' = ops
                                 /\ pc' = "probe" /\ UNCHANGED <<pairs, rows>>
  /\ UNCHANGED <<storeVars, kind, arg, dryRun, cleanTables, tbl, runs, hist>>
  /\ UNCHANGED <<ctxVars, sanVars, cliVars, listed, moreVars>>

\* look for the object where the catalog says, then at the variations, then by search
Probe ==
  /\ kind = "script" /\ pc = "probe"
  /\ LET row == Head(rows)
         there == fileExistsInS3(store, currentKey)
         variant == tryPathVariations(store, currentKey, row.hash)
         searches == ~there /\ variant = Null /\ row.hash # Null /\ row.hash # <<>>
         choices == {"ok"} \cup
                    (IF faults < MaxFaults
                       THEN {"head rejected"} \cup (IF searches THEN {"search rejected"} ELSE {})
                       ELSE {})
     IN \E ch \in choices :
          LET found == IF searches /\ ch = "ok"
                         THEN findFileInS3(store, row.hash, row.name) ELSE Null
              cur == IF there THEN currentKey
                     ELSE IF variant # Null THEN variant
                     ELSE IF found # Null THEN found ELSE currentKey
          IN /\ Fault(ch = "ok")
             /\ IF ch = "head rejected"
                  THEN Abort /\ UNCHANGED <<currentKey, cnt>>
                  ELSE /\ currentKey' = cur
                       /\ status' = [status EXCEPT !.failed = @ \/ ch # "ok"]
                       /\ IF AfterProbe(dryRun) = "next"
                            THEN cnt' = [cnt EXCEPT !.moved = @ + 1] /\ NextItem(files)
                            ELSE cnt' = cnt /\ pc' = AfterProbe(dryRun) /\ UNCHANGED <<pairs, rows>>
  /\ UNCHANGED <<storeVars, kind, arg, dryRun, cleanTables, tbl, newKey, resolved, outcome,
                 ops, runs, hist>>
  /\ UNCHANGED <<ctxVars, sanVars, cliVars, listed, moreVars>>

\* moveFileInS3: const sourceExists = await fileExistsInS3(oldKey)
MvSrc ==
  /\ kind = "script" /\ pc = "mv_src"
  /\ \E ok \in Answers :
       /\ Fault(ok)
       /\ IF ~ok THEN ItemError /\ outcome' = "Error"
          ELSE /\ UNCHANGED <<cnt, status, pairs, rows>>
               /\ IF fileExistsInS3(store, currentKey)
                    THEN pc' = "mv_dst" /\ outcome' = outcome
                    ELSE pc' = "returned" /\ outcome' = "SourceMissing"
  /\ UNCHANGED <<storeVars, kind, arg, dryRun, cleanTables, tbl, currentKey, newKey, resolved,
                 ops, runs, hist>>
  /\ UNCHANGED <<ctxVars, sanVars, cliVars, listed, moreVars>>

\* moveFileInS3: const destExists = await fileExistsInS3(newKey)
MvDst ==
  /\ kind = "script" /\ pc = "mv_dst"
  /\ \E ok \in Answers :
       /\ Fault(ok)
       /\ IF ~ok THEN ItemError /\ outcome' = "Error"
          ELSE /\ UNCHANGED <<cnt, status, pairs, rows>>
               /\ IF ~fileExistsInS3(store, newKey)
                    THEN pc' = "mv_copy" /\ outcome' = outcome
                    ELSE IF currentKey # newKey
                      THEN pc' = "mv_dedup" /\ outcome' = outcome
                      ELSE pc' = "returned" /\ outcome' = "DestinationExists"
  /\ UNCHANGED <<storeVars, kind, arg, dryRun, cleanTables, tbl, currentKey, newKey, resolved,
                 ops, runs, hist>>
  /\ UNCHANGED <<ctxVars, sanVars, cliVars, listed, moreVars>>

\* moveFileInS3: the destination exists, delete the old file
MvDedup ==
  /\ kind = "script" /\ pc = "mv_dedup"
  /\ \E ok \in Answers :
       /\ Fault(ok)
       /\ IF ~ok
            THEN /\ ItemError /\ outcome' = "Error"
                 /\ hist' = [hist EXCEPT !.rej = IF ok THEN @ ELSE CurRec]
                 /\ UNCHANGED <<store, ops>>
            ELSE /\ store' = DeleteObject(store, currentKey)
                 /\ ops' = [ops EXCEPT !.deletes = @ + 1]
                 /\ pc' = "returned" /\ outcome' = "DestinationExists"
                 /\ UNCHANGED <<cnt, status, pairs, rows, hist>>
  /\ UNCHANGED <<files, links, kind, arg, dryRun, cleanTables, tbl, currentKey, newKey,
                 resolved, runs>>
  /\ UNCHANGED <<ctxVars, sanVars, cliVars, listed, moreVars>>

\* moveFileInS3: copy to the new location
MvCopy ==
  /\ kind = "script" /\ pc = "mv_copy"
  /\ \E ok \in Answers :
       /\ Fault(ok)
       /\ IF ~ok \/ ~fileExistsInS3(store, currentKey)
            THEN /\ ItemError /\ outcome' = "Error"
                 /\ hist' = [hist EXCEPT !.rej = IF ok THEN @ ELSE CurRec]
                 /\ UNCHANGED <<store, ops>>
            ELSE /\ store' = CopyObject(store, currentKey, newKey)
                 /\ ops' = [ops EXCEPT !.copies = @ + 1]
                 /\ pc' = "mv_delete" /\ outcome' = outcome
                 /\ UNCHANGED <<cnt, status, pairs, rows, hist>>
  /\ UNCHANGED <<files, links, kind, arg, dryRun, cleanTables, tbl, currentKey, newKey,
                 resolved, runs>>
  /\ UNCHANGED <<ctxVars, sanVars, cliVars, listed, moreVars>>

\* moveFileInS3: delete the old file
MvDelete ==
  /\ kind = "script" /\ pc = "mv_delete"
  /\ \E ok \in Answers :
       /\ Fault(ok)
       /\ IF ~ok
            THEN /\ ItemError /\ outcome' = "Error"
                 /\ hist' = [hist EXCEPT !.rej = IF ok THEN @ ELSE CurRec]
                 /\ UNCHANGED <<store, ops>>
            ELSE /\ store' = DeleteObject(store, currentKey)
                 /\ ops' = [ops EXCEPT !.deletes = @ + 1]
                 /\ pc' = "returned" /\ outcome' = "Moved"
                 /\ UNCHANGED <<cnt, status, pairs, rows, hist>>
  /\ UNCHANGED <<files, links, kind, arg, dryRun, cleanTables, tbl, currentKey, newKey,
                 resolved, runs>>
  /\ UNCHANGED <<ctxVars, sanVars, cliVars, listed, moreVars>>

\* main: if (moved) UPDATE files ...; totalFilesMoved++ else totalFilesSkipped++
Returned ==
  /\ kind = "script" /\ pc = "returned"
  /\ IF MoveResult(outcome)
       THEN \E ok \in Answers :
              /\ Fault(ok)
              /\ IF ~ok THEN ItemError /\ UNCHANGED <<files, ops>>
                 ELSE /\ files' = UpdatePointer(files, Head(rows).id, newKey)
                      /\ ops' = [ops EXCEPT !.updates = @ + 1]
                      /\ cnt' = [cnt EXCEPT !.moved = @ + 1]
                      /\ status' = status
                      /\ NextItem(UpdatePointer(files, Head(rows).id, newKey))
       ELSE /\ cnt' = [cnt EXCEPT !.skipped = @ + 1]
            /\ NextItem(files)
            /\ UNCHANGED <<files, ops, status, faults>>
  /\ UNCHANGED <<store, links, kind, arg, dryRun, cleanTables, tbl, itemVars, runs, hist>>
  /\ UNCHANGED <<ctxVars, sanVars, cliVars, listed, moreVars>>

\* if (!DRY_RUN && !CLEAN_TABLES && totalFilesMoved > 0)
\* the tables cleaned after every execute run without --clean
AutoCleanAlways(d, c, moved) == ~d /\ ~c
AutoClean(d, c, moved) == ~d /\ ~c /\ moved > 0

\* main: the summary, then the automatic clean after a reorganization
Summary ==
  /\ kind = "script" /\ pc = "summary"
  /\ IF AutoClean(dryRun, cleanTables, cnt.moved)
       THEN pc' = "clean_post" /\ tbl' = 1
       ELSE pc' = "done" /\ tbl' = tbl
  /\ UNCHANGED <<storeVars, kind, arg, dryRun, cleanTables, pairs, rows, itemVars, cnt, ops,
                 status, runs, faults, hist>>
  /\ UNCHANGED <<ctxVars, sanVars, cliVars, listed, moreVars>>

\* --------------------------------- the lesson routine: reorganizeLessonFiles

RECURSIVE FieldRows(_, _, _, _)
FieldRows(fs, ls, li, flds) ==
  IF flds = <<>> THEN <<>>
  ELSE Query(fs, ls, [lesson |-> li, field |-> Head(flds)]) \o FieldRows(fs, ls, li, Tail(flds))

\* the files the populated lesson carries, in the order of its fileFields
LessonRows(fs, ls, li) == FieldRows(fs, ls, li, lessonFileFields)

TargetFolderLesson(l) ==
  Join3(sanitizeNameLesson(OrElse(l.course, <<"U","n","c","a","t","e","g","o","r","i","z","e","d">>)),
        sanitizeNameLesson(OrElse(l.module, <<"M","o","d","u","l","e">>)),
        sanitizeNameLesson(OrElse(l.title, <<"L","e","s","s","o","n">>)))

LessonNewKey(l, row) ==
  TargetFolderLesson(l) \o <<"/">> \o OrElse(OrElse(row.name, row.hash), <<"f","i","l","e">>)
                        \o OrElse(row.ext, <<>>)

LessonCurrentKey(row) == IF CatalogKey(row) # Null THEN CatalogKey(row) ELSE HashKey(row)

LsNext ==
  /\ rows' = Tail(rows) /\ pairs' = pairs
  /\ pc' = IF Tail(rows) = <<>> THEN "done" ELSE "ls_resolve"

\* the inner catch of reorganizeLessonFiles: the error is logged, nothing is counted
LsItemError ==
  /\ status' = [status EXCEPT !.failed = TRUE]
  /\ cnt' = cnt
  /\ LsNext

\* the lesson's afterCreate / afterUpdate calls reorganizeLessonFiles(lessonId)
StartLesson ==
  /\ CanStart
  /\ \E li \in 1..Len(Lessons) :
       /\ Begin("lesson", li, FALSE, FALSE)
       /\ rows' = LessonRows(files, links, li) /\ pairs' = <<>>
       /\ pc' = IF LessonRows(files, links, li) = <<>> THEN "done" ELSE "ls_resolve"
  /\ UNCHANGED <<storeVars, tbl, faults>>
  /\ UNCHANGED <<ctxVars, sanVars, cliVars, listed, moreVars>>

LsResolve ==
  /\ kind = "lesson" /\ pc = "ls_resolve"
  /\ LET cur == LessonCurrentKey(Head(rows))
         new == LessonNewKey(Lessons[arg], Head(rows))
     IN /\ currentKey' = cur /\ resolved' = cur /\ newKey' = new
        /\ IF AlreadyInPlace(cur, new)
             THEN /\ cnt' = [cnt EXCEPT !.processed = @ + 1, !.skipped = @ + 1]
                  /\ ops' = [ops EXCEPT !.noops = @ + 1]
                  /\ outcome' = "AlreadyInPlace"
                  /\ LsNext
             ELSE /\ cnt' = [cnt EXCEPT !.processed = @ + 1]
                  /\ ops' = ops /\ outcome' = "none"
                  /\ pc' = "ls_src" /\ UNCHANGED <<pairs, rows>>
  /\ UNCHANGED <<storeVars, kind, arg, dryRun, cleanTables, tbl, status, runs, faults, hist>>
  /\ UNCHANGED <<ctxVars, sanVars, cliVars, listed, moreVars>>

\* const sourceExists = await fileExistsInS3(s3Client, bucket, currentKey)
LsSrc ==
  /\ kind = "lesson" /\ pc = "ls_src"
  /\ \E ok \in Answers :
       /\ Fault(ok)
       /\ IF ~ok THEN Abort /\ UNCHANGED <<cnt, outcome>>
          ELSE /\ status' = status
               /\ IF fileExistsInS3(store, currentKey)
                    THEN pc' = "ls_dst" /\ UNCHANGED <<cnt, outcome, pairs, rows>>
                    ELSE /\ cnt' = [cnt EXCEPT !.skipped = @ + 1]
                         /\ outcome' = "SourceMissing"
                         /\ LsNext
  /\ UNCHANGED <<storeVars, kind, arg, dryRun, cleanTables, tbl, currentKey, newKey, resolved,
                 ops, runs, hist>>
  /\ UNCHANGED <<ctxVars, sanVars, cliVars, listed, moreVars>>

\* const destExists = await fileExistsInS3(s3Client, bucket, newKey)
LsDst ==
  /\ kind = "lesson" /\ pc = "ls_dst"
  /\ \E ok \in Answers :
       /\ Fault(ok)
       /\ IF ~ok THEN Abort
          ELSE /\ status' = status /\ UNCHANGED <<pairs, rows>>
               /\ pc' = IF fileExistsInS3(store, newKey) THEN "ls_dedup" ELSE "ls_copy"
  /\ UNCHANGED <<storeVars, kind, arg, dryRun, cleanTables, tbl, itemVars, cnt, ops, runs, hist>>
  /\ UNCHANGED <<ctxVars, sanVars, cliVars, listed, moreVars>>

\* the destination exists: delete the old file, count the file as skipped
LsDedup ==
  /\ kind = "lesson" /\ pc = "ls_dedup"
  /\ \E ok \in Answers :
       /\ Fault(ok)
       /\ IF ~ok
            THEN /\ Abort
                 /\ hist' = [hist EXCEPT !.rej = IF ok THEN @ ELSE CurRec]
                 /\ UNCHANGED <<store, ops, cnt, outcome>>
            ELSE /\ store' = DeleteObject(store, currentKey)
                 /\ ops' = [ops EXCEPT !.deletes = @ + 1]
                 /\ cnt' = [cnt EXCEPT !.skipped = @ + 1]
                 /\ outcome' = "DestinationExists"
                 /\ LsNext
                 /\ UNCHANGED <<status, hist>>
  /\ UNCHANGED <<files, links, kind, arg, dryRun, cleanTables, tbl, currentKey, newKey,
                 resolved, runs>>
  /\ UNCHANGED <<ctxVars, sanVars, cliVars, listed, moreVars>>

\* moveFileInS3 of the lesson routine: copy to the new location
LsCopy ==
  /\ kind = "lesson" /\ pc = "ls_copy"
  /\ \E ok \in Answers :
       /\ Fault(ok)
       /\ IF ~ok \/ ~fileExistsInS3(store, currentKey)
            THEN /\ LsItemError /\ outcome' = "Error"
                 /\ hist' = [hist EXCEPT !.rej = IF ok THEN @ ELSE CurRec]
                 /\ UNCHANGED <<store, ops>>
            ELSE /\ store' = CopyObject(store, currentKey, newKey)
                 /\ ops' = [ops EXCEPT !.copies = @ + 1]
                 /\ pc' = "ls_delete"
                 /\ UNCHANGED <<cnt, status, pairs, rows, hist, outcome>>
  /\ UNCHANGED <<files, links, kind, arg, dryRun, cleanTables, tbl, currentKey, newKey,
                 resolved, runs>>
  /\ UNCHANGED <<ctxVars, sanVars, cliVars, listed, moreVars>>

\* moveFileInS3 of the lesson routine: delete the old file
LsDelete ==
  /\ kind = "lesson" /\ pc = "ls_delete"
  /\ \E ok \in Answers :
       /\ Fault(ok)
       /\ IF ~ok
            THEN /\ LsItemError /\ outcome' = "Error"
                 /\ hist' = [hist EXCEPT !.rej = IF ok THEN @ ELSE CurRec]
                 /\ UNCHANGED <<store, ops>>
            ELSE /\ store' = DeleteObject(store, currentKey)
                 /\ ops' = [ops EXCEPT !.deletes = @ + 1]
                 /\ pc' = "ls_update" /\ outcome' = "Moved"
                 /\ UNCHANGED <<cnt, status, pairs, rows, hist>>
  /\ UNCHANGED <<files, links, kind, arg, dryRun, cleanTables, tbl, currentKey, newKey,
                 resolved, runs>>
  /\ UNCHANGED <<ctxVars, sanVars, cliVars, listed, moreVars>>

\* strapi.db.query('plugin::upload.file').update(...); filesMoved++
LsUpdate ==
  /\ kind = "lesson" /\ pc = "ls_update"
  /\ \E ok \in Answers :
       /\ Fault(ok)
       /\ IF ~ok THEN LsItemError /\ UNCHANGED <<files, ops>>
          ELSE /\ files' = UpdatePointer(files, Head(rows).id, newKey)
               /\ ops' = [ops EXCEPT !.updates = @ + 1]
               /\ cnt' = [cnt EXCEPT !.moved = @ + 1]
               /\ status' = status
               /\ LsNext
  /\ UNCHANGED <<store, links, kind, arg, dryRun, cleanTables, tbl, itemVars, runs, hist>>
  /\ UNCHANGED <<ctxVars, sanVars, cliVars, listed, moreVars>>

\* ------------------------------------------ the file hook: reorganizeFileInS3

HookNewKey(l, row) ==
  Join3(sanitizeNameHook(OrElse(l.course, <<"U","n","c","a","t","e","g","o","r","i","z","e","d">>)),
        sanitizeNameHook(OrElse(l.module, <<"M","o","d","u","l","e">>)),
        sanitizeNameHook(OrElse(l.title, <<"l","e","s","s","o","n">>))) \o row.ext

HookOldKey(row) == IF row.key # Null /\ row.key # <<>> THEN row.key ELSE HashKey(row)

\* the lessons a file is related to, by the link tables
RelatedLessons(fs, ls, f) ==
  {li \in 1..Len(Lessons) :
     \E fld \in 1..Len(fileFields) :
       \E i \in 1..Len(Query(fs, ls, [lesson |-> li, field |-> fileFields[fld]])) :
         Query(fs, ls, [lesson |-> li, field |-> fileFields[fld]])[i].id = f}

HookRow(fs, f) == [id |-> f, name |-> fs[f].name, ext |-> fs[f].ext, hash |-> fs[f].hash,
                   key |-> fs[f].key, url |-> fs[f].url]

\* the catch of reorganizeFileInS3: the error is logged
HkError ==
  /\ pc' = "done"
  /\ status' = [status EXCEPT !.failed = TRUE]
  /\ outcome' = "Error"

\* reorganizeFileIfNeeded(fileId) up to the call of reorganizeFileInS3
StartHook ==
  /\ CanStart
  /\ \E f \in DOMAIN files :
       \E li \in RelatedLessons(files, links, f) :
         LET row == HookRow(files, f) IN
           /\ kind' = "hook" /\ arg' = li /\ dryRun' = FALSE /\ cleanTables' = FALSE
           /\ cnt' = ZeroCnt /\ ops' = ZeroOps /\ status' = CleanStatus
           /\ runs' = runs + 1
           /\ hist' = [prev |-> [kind |-> kind, arg |-> arg, dry |-> dryRun,
                                 ok |-> pc = "done" /\ ~status.failed /\ ~status.aborted],
                       mid |-> NoRec, rej |-> NoRec, cut |-> NoRec,
              dueMid |-> hist.mid, dueRej |-> hist.rej, dueCut |-> hist.cut]
           /\ rows' = <<row>> /\ pairs' = <<>>
           /\ currentKey' = HookOldKey(row) /\ resolved' = HookOldKey(row)
           /\ newKey' = HookNewKey(Lessons[li], row)
           /\ outcome' = IF HookNewKey(Lessons[li], row) = HookOldKey(row)
                           THEN "AlreadyInPlace" ELSE "none"
           /\ pc' = IF HookNewKey(Lessons[li], row) = HookOldKey(row) THEN "done" ELSE "hk_copy"
  /\ UNCHANGED <<storeVars, tbl, faults>>
  /\ UNCHANGED <<ctxVars, sanVars, cliVars, listed, moreVars>>

\* Step 1: copy file to new location
HkCopy ==
  /\ kind = "hook" /\ pc = "hk_copy"
  /\ \E ok \in Answers :
       /\ Fault(ok)
       /\ IF ~ok \/ ~fileExistsInS3(store, currentKey)
            THEN /\ HkError
                 /\ hist' = [hist EXCEPT !.rej = IF ok THEN @ ELSE CurRec]
                 /\ UNCHANGED <<store, ops>>
            ELSE /\ store' = CopyObject(store, currentKey, newKey)
                 /\ ops' = [ops EXCEPT !.copies = @ + 1]
                 /\ pc' = "hk_delete"
                 /\ UNCHANGED <<status, outcome, hist>>
  /\ UNCHANGED <<files, links, kind, arg, dryRun, cleanTables, tbl, pairs, rows, currentKey,
                 newKey, resolved, cnt, runs>>
  /\ UNCHANGED <<ctxVars, sanVars, cliVars, listed, moreVars>>

\* Step 2: delete old file
HkDelete ==
  /\ kind = "hook" /\ pc = "hk_delete"
  /\ \E ok \in Answers :
       /\ Fault(ok)
       /\ IF ~ok
            THEN /\ HkError
                 /\ hist' = [hist EXCEPT !.rej = IF ok THEN @ ELSE CurRec]
                 /\ UNCHANGED <<store, ops>>
            ELSE /\ store' = DeleteObject(store, currentKey)
                 /\ ops' = [ops EXCEPT !.deletes = @ + 1]
                 /\ pc' = "hk_update" /\ outcome' = "Moved"
                 /\ UNCHANGED <<status, hist>>
  /\ UNCHANGED <<files, links, kind, arg, dryRun, cleanTables, tbl, pairs, rows, currentKey,
                 newKey, resolved, cnt, runs>>
  /\ UNCHANGED <<ctxVars, sanVars, cliVars, listed, moreVars>>

\* Step 3: update file record in database
HkUpdate ==
  /\ kind = "hook" /\ pc = "hk_update"
  /\ \E ok \in Answers :
       /\ Fault(ok)
       /\ IF ~ok THEN /\ pc' = "done" /\ status' = [status EXCEPT !.failed = TRUE]
                      /\ UNCHANGED <<files, ops, cnt>>
          ELSE /\ files' = UpdatePointer(files, Head(rows).id, newKey)
               /\ ops' = [ops EXCEPT !.updates = @ + 1]
               /\ cnt' = [cnt EXCEPT !.moved = @ + 1]
               /\ pc' = "done" /\ status' = status
  /\ UNCHANGED <<store, links, kind, arg, dryRun, cleanTables, tbl, pairs, rows, itemVars,
                 runs, hist>>
  /\ UNCHANGED <<ctxVars, sanVars, cliVars, listed, moreVars>>

\* the positions inside the relocate of one file: from the source check to the pointer
\* update
RelocatePcs == {"mv_src", "mv_dst", "mv_dedup", "mv_copy", "mv_delete", "returned",
                "ls_src", "ls_dst", "ls_dedup", "ls_copy", "ls_delete", "ls_update",
                "hk_copy", "hk_delete", "hk_update"}

\* the process is inside the relocate of a file whose pointer names the source key, with
\* the file's object still at the source key or, the source gone, at the destination key
InRelocate ==
  /\ pc \in RelocatePcs
  /\ rows # <<>>
  /\ LET f == Head(rows).id
     IN /\ files[f].key = currentKey
        /\ \/ currentKey \in DOMAIN store /\ store[currentKey] = f
           \/ currentKey \notin DOMAIN store /\ newKey \in DOMAIN store /\ store[newKey] = f

\* the process dies where it stands
Crash ==
  /\ pc \notin {"idle", "done", "crashed"}
  /\ faults < MaxFaults
  /\ faults' = faults + 1
  /\ pc' = "crashed"
  /\ hist' = [hist EXCEPT !.mid = IF pc \in {"mv_delete", "ls_delete", "hk_delete"}
                                    THEN CurRec ELSE @,
                          !.cut = IF InRelocate THEN CurRec ELSE @]
  /\ UNCHANGED <<storeVars, kind, arg, dryRun, cleanTables, tbl, pairs, rows, itemVars, cnt,
                 ops, status, runs>>
  /\ UNCHANGED <<ctxVars, sanVars, cliVars, listed, moreVars>>

Next ==
  \/ StartScript
  \/ CleanTable
  \/ Resolve
  \/ Probe
  \/ MvSrc
  \/ MvDst
  \/ MvDedup
  \/ MvCopy
  \/ MvDelete
  \/ Returned
  \/ Summary
  \/ StartLesson
  \/ LsResolve
  \/ LsSrc
  \/ LsDst
  \/ LsDedup
  \/ LsCopy
  \/ LsDelete
  \/ LsUpdate
  \/ StartHook
  \/ HkCopy
  \/ HkDelete
  \/ HkUpdate
  \/ Crash

Spec == Init /\ [][Next]_vars

\* --------------------------------------------------- the context channel

MaxCtx == 2

MaxDeq == 3

\* what getNextFileContext returns when there is no entry to hand out
NullCtx == [path |-> <<>>, fileName |-> <<"null">>]
UndefinedCtx == [path |-> <<>>, fileName |-> <<"undefined">>]

CtxSeqs == UNION {[1..n -> Entries] : n \in 0..MaxCtx}

Range(q) == {q[i] : i \in DOMAIN q}

\* uploadContextStorage.getStore() in the asynchronous context of request r:
\* the array of r's own scope, 0 outside any scope
\* one module-level array, the one established last, in place of the scoped store
getStoreLast(r) == last
getStore(r) == IF phase[r] = "in" THEN r ELSE 0

\* runWithFileContexts(contexts, fn): request r enters its scope with its own array
runWithFileContexts ==
  /\ \E r \in Requests, contexts \in CtxSeqs :
       /\ phase[r] = "none"
       /\ phase' = [phase EXCEPT ![r] = "in"]
       /\ arrays' = [arrays EXCEPT ![r] = contexts]
       /\ enq' = [enq EXCEPT ![r] = contexts]
       /\ last' = r
  /\ UNCHANGED <<got, named, todo, relocVars, sanVars, cliVars, listed, moreVars>>

\* getNextFileContext(), called by the provider while it uploads a file of request r
getNextFileContext ==
  /\ \E r \in Requests :
       /\ Len(got[r]) < MaxDeq
       /\ LET st == getStore(r) IN
            IF st = 0
              THEN got' = [got EXCEPT ![r] = Append(@, NullCtx)] /\ arrays' = arrays
            ELSE IF arrays[st] = <<>>
              THEN got' = [got EXCEPT ![r] = Append(@, UndefinedCtx)] /\ arrays' = arrays
            ELSE /\ got' = [got EXCEPT ![r] = Append(@, Head(arrays[st]))]
                 /\ arrays' = [arrays EXCEPT ![st] = Tail(@)]
  /\ UNCHANGED <<phase, enq, last, named, todo, relocVars, sanVars, cliVars, listed, moreVars>>

\* fn has settled: the scope of request r is over
LeaveScope ==
  /\ \E r \in Requests :
       /\ phase[r] = "in"
       /\ phase' = [phase EXCEPT ![r] = "out"]
  /\ UNCHANGED <<arrays, enq, got, last, named, todo, relocVars, sanVars, cliVars, listed, moreVars>>

InitCtx == Idle(CHOOSE w \in Worlds : TRUE) /\ NoScopes /\ NoFolders /\ Connected

NextCtx ==
  \/ runWithFileContexts
  \/ getNextFileContext
  \/ LeaveScope

SpecCtx == InitCtx /\ [][NextCtx]_vars

\* ------------------------------------------------- the storage provider

MaxUp == 2

\* the files handed to the provider: name, hash, and the id of the lesson in
\* file.related[0] (0: no related entity)
UploadFiles ==
  { [name |-> <<"n",".","p">>, hash |-> <<"h","1">>, related |-> 1],
    [name |-> <<"R"," ","s">>, hash |-> Null, related |-> 0] }

\* the values Date.now() takes, as they print in a template string
Times == {<<"7">>}

\* sanitize(name) of the provider
sanitize(name) ==
  IF name = Null \/ name = <<>> THEN <<>>
  ELSE LET a == toLowerCase(trim(name))
           b == KeepChars(a, LowerLetters \cup Digits \cup WhiteSpace \cup {"-", "_", "."})
           c == ReplaceRuns(b, WhiteSpace, <<"-">>)
       IN  ReplaceRuns(c, {"-"}, <<"-">>)

\* path.basename(p): what follows the last slash
basename(p) ==
  LET i == LastIndexOf(p, "/")
  IN  IF i = 0 THEN p ELSE SubSeq(p, i + 1, Len(p))

\* path.extname(p): from the last dot of the base name, unless that dot leads it
extname(p) ==
  LET b == basename(p)
      i == LastIndexOf(b, ".")
  IN  IF i <= 1 THEN <<>> ELSE SubSeq(b, i, Len(b))

\* path.basename(p, ext): the base name without the suffix ext
basenameExt(p, ext) ==
  LET b == basename(p)
      n == Len(b) - Len(ext)
  IN  IF ext # <<>> /\ n >= 1 /\ SubSeq(b, n + 1, Len(b)) = ext
        THEN SubSeq(b, 1, n) ELSE b

uncategorized == <<"u","n","c","a","t","e","g","o","r","i","z","e","d">>

\* strapi.entityService.findOne('api::lesson.lesson', lessonId, ...)
findOneLesson(id) == {Lessons[i] : i \in {j \in 1..Len(Lessons) : Lessons[j].id = id}}

\* getFolderPath: the folder path of a lesson that was found
folderPath(lesson) ==
  LET courseTitle == OrElse(lesson.course,
                       <<"u","n","k","n","o","w","n","-","c","o","u","r","s","e">>)
      moduleTitle == OrElse(lesson.module,
                       <<"u","n","k","n","o","w","n","-","m","o","d","u","l","e">>)
      lessonTitle == OrElse(lesson.title,
                       <<"u","n","k","n","o","w","n","-","l","e","s","s","o","n">>)
  IN  Join3(sanitize(courseTitle), sanitize(moduleTitle), sanitize(lessonTitle))

\* getFolderPath(file, strapi)
\* every file in the bucket root
getFolderPathRoot(file) == <<>>
getFolderPath(file) ==
  IF file.related = 0 THEN uncategorized
  ELSE IF findOneLesson(file.related) = {} THEN uncategorized
  ELSE folderPath(CHOOSE l \in findOneLesson(file.related) : TRUE)

\* generateFileName(file), Date.now() returning now
generateFileName(file, now) ==
  LET ext == extname(file.name)
      nameWithoutExt == basenameExt(file.name, ext)
      cleanName == sanitize(nameWithoutExt)
  IN  cleanName \o <<"-">> \o now \o ext

\* fileContext && fileContext.path
\* any dequeue result taken for a context
UsesContextAlways(fileContext) == TRUE
UsesContext(fileContext) ==
  fileContext # NullCtx /\ fileContext # UndefinedCtx /\ fileContext.path # <<>>

\* the key upload and uploadStream store the file under
uploadKey(fileContext, file, now) ==
  IF UsesContext(fileContext)
    THEN LET ext == OrElse(extname(OrElse(file.name, <<>>)), <<".","b","i","n">>)
             uniquePart == IF file.hash # Null /\ file.hash # <<>> THEN file.hash
                           ELSE <<"f","i","l","e","-">> \o now
             fileName == fileContext.fileName \o <<"-">> \o uniquePart \o ext
         IN  fileContext.path \o <<"/">> \o fileName
    ELSE getFolderPath(file) \o <<"/">> \o generateFileName(file, now)

\* store.shift(): the element handed out and the array that is left
\* store.pop(): the entry enqueued last
ShiftLast(q) ==
  IF q = <<>> THEN [value |-> UndefinedCtx, rest |-> <<>>]
  ELSE [value |-> q[Len(q)], rest |-> SubSeq(q, 1, Len(q) - 1)]
\* store[0]: the first entry stays in the array
ShiftPeek(q) ==
  IF q = <<>> THEN [value |-> UndefinedCtx, rest |-> <<>>]
  ELSE [value |-> Head(q), rest |-> q]
Shift(q) ==
  IF q = <<>> THEN [value |-> UndefinedCtx, rest |-> <<>>]
  ELSE [value |-> Head(q), rest |-> Tail(q)]

\* the number of objects stored so far, over all requests
RECURSIVE CountNamed(_)
CountNamed(R) ==
  IF R = {} THEN 0
  ELSE LET r == CHOOSE x \in R : TRUE IN Len(named[r]) + CountNamed(R \ {r})

\* the file the provider is handed next for request r: the next file of its
\* lesson write, any file when the provider is used directly
NextFiles(r) ==
  IF phase[r] = "write" THEN (IF todo[r] = <<>> THEN {} ELSE {Head(todo[r])})
  ELSE UploadFiles

\* upload(file) / uploadStream(file) of the provider, for a file of request r:
\* getNextFileContext(), then the key, then the object is stored under it
\* (scope records whether the call was made inside the request's scope)
upload ==
  /\ CountNamed(Requests) < MaxUp
  /\ \E r \in Requests :
       \E file \in NextFiles(r), now \in Times :
         LET st == getStore(r)
             d  == IF st = 0 THEN [value |-> NullCtx, rest |-> <<>>] ELSE Shift(arrays[st])
         IN  /\ got' = [got EXCEPT ![r] = Append(@, d.value)]
             /\ arrays' = IF st = 0 THEN arrays ELSE [arrays EXCEPT ![st] = d.rest]
             /\ named' = [named EXCEPT ![r] =
                            Append(@, [file |-> file, now |-> now, scope |-> phase[r],
                                       key |-> uploadKey(d.value, file, now)])]
             /\ todo' = [todo EXCEPT ![r] = IF phase[r] = "write" THEN Tail(@) ELSE @]
  /\ UNCHANGED <<phase, enq, last, relocVars, sanVars, cliVars, listed, moreVars>>

\* the files of the writes to a lesson: one to MaxCtx files in upload order
WriteFiles == UNION {[1..n -> UploadFiles] : n \in 1..MaxCtx}

\* create(params) of the lesson service with files, through the upload plugin as
\* the extension leaves it: each file gets the lesson as its related entity and
\* goes to the upload service, which hands it to the provider
lessonWrite ==
  /\ \E r \in Requests, id \in LessonIds, params \in WriteFiles :
       /\ phase[r] = "none"
       /\ named[r] = <<>>
       /\ phase' = [phase EXCEPT ![r] = "write"]
       /\ todo' = [todo EXCEPT ![r] = [k \in DOMAIN params |-> [params[k] EXCEPT !.related = id]]]
  /\ UNCHANGED <<arrays, enq, got, last, named, relocVars, sanVars, cliVars, listed, moreVars>>

NextUpload ==
  \/ runWithFileContexts
  \/ upload
  \/ LeaveScope
  \/ lessonWrite

SpecUpload == InitCtx /\ [][NextUpload]_vars

\* ------------------------------------------------------ the target folder

MaxLen == 2

\* the characters the titles are drawn from: a letter of each case, white
\* space, a character no sanitizer keeps, and the three punctuation marks kept
Alphabet == {"a", "B", " ", "!", "-", "_", "."}

\* the titles: every string of at most MaxLen characters, and no title at all
Titles == UNION {[1..n -> Alphabet] : n \in 0..MaxLen} \cup {Null}

\* the lineages: the scenario's, with any one of its titles replaced
Lineages ==
  {Scenario}
    \cup {[Scenario EXCEPT !.course = t] : t \in Titles}
    \cup {[Scenario EXCEPT !.module = t] : t \in Titles}
    \cup {[Scenario EXCEPT !.title = t] : t \in Titles}

\* the title of the lineage that was replaced (the lesson title when none was)
Replaced(l) ==
  IF l.course # Scenario.course THEN l.course
  ELSE IF l.module # Scenario.module THEN l.module
  ELSE l.title

\* main of the script: courseName / moduleName / lessonName
scriptFolder ==
  /\ folder = NoFolder
  /\ folder' = [by |-> "script", token |-> sanitizeName(Replaced(lineage)),
                path |-> TargetFolder(lineage)]
  /\ UNCHANGED <<lineage, relocVars, ctxVars, cliVars, listed, moreVars>>

\* reorganizeLessonFiles: targetFolder
lessonFolder ==
  /\ folder = NoFolder
  /\ folder' = [by |-> "lesson", token |-> sanitizeNameLesson(Replaced(lineage)),
                path |-> TargetFolderLesson(lineage)]
  /\ UNCHANGED <<lineage, relocVars, ctxVars, cliVars, listed, moreVars>>

\* getFolderPath of the provider: folderPath
providerFolder ==
  /\ folder = NoFolder
  /\ folder' = [by |-> "provider", token |-> sanitize(Replaced(lineage)),
                path |-> folderPath(lineage)]
  /\ UNCHANGED <<lineage, relocVars, ctxVars, cliVars, listed, moreVars>>

InitSan ==
  /\ Idle(CHOOSE w \in Worlds : TRUE) /\ NoScopes /\ Connected
  /\ lineage \in Lineages
  /\ folder = NoFolder

NextSan ==
  \/ scriptFolder
  \/ lessonFolder
  \/ providerFolder

SpecSan == InitSan /\ [][NextSan]_vars

\* ------------------------------------------------------------ properties

MovePcs == {"probe", "mv_src", "mv_dst", "mv_dedup", "mv_copy", "mv_delete", "returned",
            "ls_src", "ls_dst", "ls_dedup", "ls_copy", "ls_delete", "ls_update",
            "hk_copy", "hk_delete", "hk_update"}

LinkedOnce(f) == Cardinality(RelatedLessons(files, links, f)) = 1

\* this run is the routine of the previous run again, on the item the record names
Rerun(rec) ==
  /\ kind = hist.prev.kind
  /\ kind = "lesson" => arg = rec.lesson
  /\ kind = "hook" => arg = rec.lesson /\ rows # <<>> /\ Head(rows).id = rec.f

CompleteRun == pc = "done" /\ ~dryRun /\ ~status.failed /\ ~status.aborted

\* C1: after one complete execute-mode relocation pass, a second execute-mode pass over
\* the state the first one left issues no copy, no delete and no pointer update, and
\* its moved counter is 0 (both passes without a rejected call).
C1_SecondPassMovesNothing ==
  ( /\ CompleteRun
    /\ kind \in {"script", "lesson"}
    /\ hist.prev.kind = kind /\ hist.prev.arg = arg /\ ~hist.prev.dry /\ hist.prev.ok )
  => ops.copies = 0 /\ ops.deletes = 0 /\ ops.updates = 0 /\ cnt.moved = 0

\* C2: a relocate whose destination key exists before the call, whether or not the
\* source still exists, leaves the source key absent from the store and the file's
\* catalog pointer equal to the destination key.
C2_MoveSafety ==
  [][ ( /\ \/ pc = "returned" /\ outcome \in {"DestinationExists", "SourceMissing"}
           \/ pc = "ls_dedup"
           \/ pc = "ls_src" /\ ~fileExistsInS3(store, currentKey)
        /\ fileExistsInS3(store, newKey)
        /\ currentKey # newKey
        /\ faults' = faults )
      => /\ ~fileExistsInS3(store', currentKey)
         /\ files'[Head(rows).id].key = newKey ]_vars

\* C3: the catalog pointer of a file is written only when the outcome of its relocate is
\* Moved or DestinationExists, with the object at the destination and gone from the
\* source, and what is written is the destination key.
C3_PointerOnlyAfterRelocate ==
  [][ \A f \in DOMAIN files :
        files'[f] # files[f]
        => /\ outcome \in {"Moved", "DestinationExists"}
           /\ rows # <<>> /\ f = Head(rows).id
           /\ fileExistsInS3(store, newKey)
           /\ currentKey # newKey => ~fileExistsInS3(store, currentKey)
           /\ files'[f].key = newKey /\ files'[f].url = newKey
           /\ store' = store ]_vars

C3_Witness ==
  /\ ops.updates >= 1 /\ ops.copies >= 1 /\ ops.deletes >= 1
  /\ outcome = "Moved"
  /\ \E f \in DOMAIN files : files[f].key = newKey

\* C4: after a run was interrupted between the copy and the source delete of a file, a
\* subsequent complete execute-mode run of the routine ends with the object at the
\* destination key, absent at the source key, and the pointer equal to the destination.
C4_RecoversInterruptedMove ==
  ( /\ CompleteRun
    /\ hist.dueMid # NoRec
    /\ Rerun(hist.dueMid)
    /\ LinkedOnce(hist.dueMid.f) )
  => /\ fileExistsInS3(store, hist.dueMid.dst)
     /\ ~fileExistsInS3(store, hist.dueMid.src)
     /\ files[hist.dueMid.f].key = hist.dueMid.dst

\* C5: after the copy or the source delete of a relocation was rejected, a later
\* complete run of the routine relocates the file: object at the destination, gone
\* from the source, pointer equal to the destination.
C5_RelocatedByLaterRun ==
  ( /\ CompleteRun
    /\ hist.dueRej # NoRec
    /\ Rerun(hist.dueRej)
    /\ LinkedOnce(hist.dueRej.f) )
  => /\ fileExistsInS3(store, hist.dueRej.dst)
     /\ ~fileExistsInS3(store, hist.dueRej.src)
     /\ files[hist.dueRej.f].key = hist.dueRej.dst

\* files of the batch that the loops of main have not come to yet
Remaining == Len(rows) > 1 \/ (pairs # <<>> /\ SkipEmpty(files, links, Tail(pairs)) # <<>>)

\* C6: a failure while one file is processed never keeps the remaining files of the
\* batch from being processed: when the script has ended, no file is left unvisited.
C6_BatchSurvivesItemFailure ==
  (kind = "script" /\ pc \in {"summary", "clean_post", "done"}) => ~Remaining

\* C7: in dry-run mode, with or without --clean, no step of the script copies or deletes
\* an object, or updates or deletes a catalog row: store, pointers and link rows stay
\* as they were before the run.
C7_DryRunChangesNothing ==
  [][ (kind = "script" /\ dryRun /\ pc \notin {"idle", "done", "crashed"})
      => /\ store' = store /\ files' = files /\ links' = links
         /\ ops'.copies = 0 /\ ops'.deletes = 0 /\ ops'.updates = 0 /\ ops'.linkDeletes = 0
         /\ pc' \notin {"clean_pre", "clean_post"} ]_vars

C7_Witness ==
  /\ kind = "script" /\ dryRun /\ cleanTables /\ pc = "done"
  /\ cnt.moved >= 1
  /\ \E f \in DOMAIN files : files[f].key # newKey

\* C8 as claimed: whenever the current key of a file equals its target key, at the
\* comparison or on entry of the move routine, no copy and no delete is issued and the
\* catalog pointer is not rewritten.
C8_NoOpNeverRewrites ==
  [][ (kind = "script" /\ pc \in MovePcs /\ currentKey = newKey)
      => /\ ops'.copies = ops.copies /\ ops'.deletes = ops.deletes
         /\ ops'.updates = ops.updates ]_vars

\* C8: when the key resolved from the catalog equals the target key, no copy, no delete
\* and no pointer write is issued for the file; when the move routine is entered with
\* the source key equal to the destination key (the probe found the object at the
\* target), no copy and no delete is issued, and the only write is the pointer set to
\* the destination key.
C8_NoOpDetection ==
  [][ /\ (pc \in {"resolve", "ls_resolve"} /\ resolved' = newKey' /\ resolved' # Null)
         => /\ ops'.copies = ops.copies /\ ops'.deletes = ops.deletes
            /\ ops'.updates = ops.updates
            /\ store' = store /\ files' = files
      /\ (pc \in MovePcs /\ resolved = newKey)
         => /\ ops'.copies = ops.copies /\ ops'.deletes = ops.deletes
            /\ ops'.updates = ops.updates
      /\ (pc \in MovePcs /\ currentKey = newKey)
         => /\ ops'.copies = ops.copies /\ ops'.deletes = ops.deletes
            /\ store' = store
            /\ \A f \in DOMAIN files : files'[f] # files[f] => files'[f].key = newKey ]_vars

C8_Witness ==
  /\ kind = "script" /\ outcome = "DestinationExists"
  /\ currentKey = newKey /\ resolved # newKey
  /\ ops.updates >= 1 /\ ops.copies = 0 /\ ops.deletes = 0
  /\ ops.noops >= 1

\* C9: when a relocation completes with outcome Moved, the store holds the object at the
\* destination key and no longer at the source key, the catalog pointer equals the
\* destination key, and exactly one move is counted for the file.
C9_MovedOutcome ==
  [][ ( /\ pc \in {"returned", "ls_update", "hk_update"}
        /\ outcome = "Moved"
        /\ faults' = faults )
      => /\ fileExistsInS3(store', newKey)
         /\ ~fileExistsInS3(store', currentKey)
         /\ files'[Head(rows).id].key = newKey
         /\ cnt'.moved = cnt.moved + 1
         /\ ops.copies >= 1 /\ ops.deletes >= 1 /\ ops'.updates = ops.updates + 1 ]_vars

C9_Witness ==
  /\ outcome = "Moved" /\ cnt.moved = 1 /\ ops.updates = 1
  /\ fileExistsInS3(store, newKey) /\ ~fileExistsInS3(store, currentKey)
  /\ \E f \in DOMAIN files : files[f].key = newKey

\* C10: for two concurrent request scopes that each hold their own FileContext sequence
\* and any interleaving of their dequeues, a dequeue inside one scope returns no entry
\* that was enqueued only in the other, and leaves the other scope's queue as it was.
C10_ContextIsolation ==
  [][ \A a \in Requests :
        got'[a] # got[a]
        => /\ \A b \in Requests \ {a} : arrays'[b] = arrays[b]
           /\ got'[a][Len(got'[a])] \in Entries
                => got'[a][Len(got'[a])] \in Range(enq[a]) ]_vars

C10_Witness ==
  /\ phase[1] = "in" /\ phase[2] = "in"
  /\ Range(enq[1]) \cap Range(enq[2]) = {}
  /\ Len(got[1]) >= 1 /\ got[1][1] \in Range(enq[1])
  /\ Len(got[2]) >= 1 /\ got[2][1] \in Range(enq[2])
  /\ arrays[1] # <<>> /\ arrays[2] # <<>>

\* -------------------------------------- properties of the upload naming

\* the positions of request r's provider calls made inside its scope, in order
ScopedCalls(r) ==
  SelectSeq([i \in 1..Len(named[r]) |-> i], LAMBDA i : named[r][i].scope = "in")

\* the name the provider gives the two files from a context c:
\* c.path / c.fileName - hash or "file-<time>" - extension or ".bin"
NamedFrom(c, o) ==
  o.key = c.path \o <<"/">> \o c.fileName \o <<"-">> \o
          (IF o.file.name = <<"n",".","p">> THEN <<"h","1",".","p">>
           ELSE <<"f","i","l","e","-">> \o o.now \o <<".","b","i","n">>)

\* C11: within one request scope established with c1..cN, the k-th call of
\* getNextFileContext (k <= N) returns ck, and the k-th object handed to the
\* provider is named from the k-th context.
C11_FifoNaming ==
  \A r \in Requests :
    \A k \in 1..Len(ScopedCalls(r)) :
      k <= Len(enq[r]) =>
        LET i == ScopedCalls(r)[k]
        IN  /\ got[r][i] = enq[r][k]
            /\ NamedFrom(enq[r][k], named[r][i])

C11_Witness ==
  \E r \in Requests :
    /\ Len(enq[r]) = 2
    /\ enq[r][1] # enq[r][2]
    /\ Len(ScopedCalls(r)) = 2
    /\ named[r][1].file # named[r][2].file

\* the contexts request r's in-scope calls have returned, in order
ReturnedCtx(r) ==
  LET calls == ScopedCalls(r)
  IN  SelectSeq([k \in 1..Len(calls) |-> got[r][calls[k]]], LAMBDA c : c # UndefinedCtx)

\* C12: each enqueued FileContext is returned by at most one call: once returned
\* it is no longer in the queue, and the contexts returned never outnumber the
\* contexts enqueued (what was returned, followed by what is still queued, is
\* what was enqueued).
C12_AtMostOnce ==
  \A r \in Requests :
    phase[r] \in {"in", "out"} =>
      /\ ReturnedCtx(r) \o arrays[r] = enq[r]
      /\ Len(ReturnedCtx(r)) <= Len(enq[r])

C12_Witness ==
  \E r \in Requests :
    /\ Len(enq[r]) >= 1
    /\ Len(ReturnedCtx(r)) = Len(enq[r])
    /\ Len(ScopedCalls(r)) > Len(enq[r])

\* the provider's own name for the two files: the folder of the related lesson
\* or "uncategorized", then the cleaned base name, the time and the extension
DefaultNamed(o) ==
  o.key = (IF o.file.related = 0 THEN <<"u","n","c","a","t","e","g","o","r","i","z","e","d">>
           ELSE IF o.file.related = 1 THEN <<"c","o","-","x","/","m","-","1","/","l","-","a">>
           ELSE <<"c","o","-","x","/","m","-","1","/","l","-","b">>)
          \o <<"/">> \o
          (IF o.file.name = <<"n",".","p">> THEN <<"n","-">> \o o.now \o <<".","p">>
           ELSE <<"r","-","s","-">> \o o.now)

\* C13: when the provider names an object and no request scope is established,
\* getNextFileContext returns null and the object gets the provider's default
\* name (folder of the file's related lesson or "uncategorized", then the
\* generated file name).
C13_NoScopeDefaultNaming ==
  \A r \in Requests :
    \A i \in 1..Len(named[r]) :
      named[r][i].scope # "in" =>
        /\ got[r][i] = NullCtx
        /\ DefaultNamed(named[r][i])

C13_Witness ==
  \E r \in Requests :
    /\ Len(named[r]) = 2
    /\ named[r][1].scope = "none" /\ named[r][2].scope = "none"
    /\ {named[r][1].file.related, named[r][2].file.related} = {0, 1}

\* C14: when a scope holds N contexts and more than N objects are handed to the
\* provider, every dequeue after the N-th finds the queue empty (undefined, no
\* error) and exactly those excess objects get the default name, while the
\* first N objects keep their context-derived names.
C14_ExcessFallsBack ==
  \A r \in Requests :
    \A k \in 1..Len(ScopedCalls(r)) :
      LET i == ScopedCalls(r)[k]
      IN  IF k > Len(enq[r])
            THEN got[r][i] = UndefinedCtx /\ DefaultNamed(named[r][i])
            ELSE got[r][i] \in Entries /\ ~DefaultNamed(named[r][i])
                 /\ NamedFrom(got[r][i], named[r][i])

C14_Witness ==
  \E r \in Requests :
    /\ Len(enq[r]) = 1
    /\ Len(ScopedCalls(r)) = 2
    /\ named[r][ScopedCalls(r)[2]].file.related = 1
    /\ got[r][ScopedCalls(r)[2]] = UndefinedCtx

\* C15: for every write that carries N files for a lesson, a request scope holding
\* one FileContext per file, in upload order, is established before the provider
\* names any of those files, so each of the N objects is named from its
\* precomputed target path.
C15_WriteEstablishesScope ==
  \A r \in Requests :
    (phase[r] = "write" /\ named[r] # <<>>) =>
      /\ Len(enq[r]) = Len(named[r]) + Len(todo[r])
      /\ \A i \in 1..Len(named[r]) :
           /\ got[r][i] = enq[r][i]
           /\ NamedFrom(got[r][i], named[r][i])

\* ---------------------------------------- properties of the target folder

\* path.split('/')
RECURSIVE Segments(_)
Segments(path) ==
  LET i == CHOOSE j \in 1..(Len(path) + 1) :
             /\ (j = Len(path) + 1 \/ path[j] = "/")
             /\ \A k \in 1..(j - 1) : path[k] # "/"
  IN  IF i = Len(path) + 1 THEN <<path>>
      ELSE <<SubSeq(path, 1, i - 1)>> \o Segments(SubSeq(path, i + 1, Len(path)))

\* C16: sanitizer totality: for every input (null, the empty string, white space
\* only and disallowed characters only included) every sanitizer that builds a
\* key segment returns a non-empty token, so no built key has an empty segment.
C16_SanitizerTotality ==
  folder # NoFolder =>
    /\ folder.token # <<>>
    /\ \A i \in DOMAIN Segments(folder.path) : Segments(folder.path)[i] # <<>>

\* the sanitizer of the code that built the folder
SanitizerOf(by, t) ==
  IF by = "script" THEN sanitizeName(t)
  ELSE IF by = "lesson" THEN sanitizeNameLesson(t)
  ELSE sanitize(t)

\* the three titles of a lineage, in order
Levels(l) == <<l.course, l.module, l.title>>

\* the sanitized default titles, as they appear in a folder
DefaultSegment(by, i) ==
  IF by = "provider"
    THEN << <<"u","n","k","n","o","w","n","-","c","o","u","r","s","e">>,
            <<"u","n","k","n","o","w","n","-","m","o","d","u","l","e">>,
            <<"u","n","k","n","o","w","n","-","l","e","s","s","o","n">> >>[i]
    ELSE << <<"u","n","c","a","t","e","g","o","r","i","z","e","d">>,
            <<"m","o","d","u","l","e">>,
            <<"l","e","s","s","o","n">> >>[i]

ScenarioFolder ==
  <<"i","n","t","r","o","-","t","o","-","r","o","b","o","t","i","c","s","/",
    "m","o","d","u","l","e","-","1","/","l","e","s","s","o","n","-","o","n","e","/">>

\* C17 as stated: for every lineage the target folder is sanitize(course) /
\* sanitize(module) / sanitize(lesson), exactly three segments, and the
\* scenario's lineage yields "intro-to-robotics/module-1/lesson-one/".
C17_FolderOfEveryLineage ==
  folder # NoFolder =>
    /\ Len(Segments(folder.path)) = 3
    /\ \A i \in 1..3 : Segments(folder.path)[i] = SanitizerOf(folder.by, Levels(lineage)[i])
    /\ lineage = Scenario => folder.path \o <<"/">> = ScenarioFolder

\* C17 for the lineages the code sanitizes as they are: when every title is a
\* non-empty string the target folder is sanitize(course) / sanitize(module) /
\* sanitize(lesson); a missing or empty title gives the segment of the
\* routine's default title; three segments in every case, and the scenario's
\* lineage yields "intro-to-robotics/module-1/lesson-one/".
C17_FolderOfTitledLineage ==
  folder # NoFolder =>
    /\ Len(Segments(folder.path)) = 3
    /\ \A i \in 1..3 :
         Segments(folder.path)[i] =
           IF Levels(lineage)[i] \in {Null, <<>>} THEN DefaultSegment(folder.by, i)
           ELSE SanitizerOf(folder.by, Levels(lineage)[i])
    /\ lineage = Scenario => folder.path \o <<"/">> = ScenarioFolder

C17_Witness ==
  /\ lineage = Scenario
  /\ folder.by = "lesson"
  /\ folder.path \o <<"/">> = ScenarioFolder

\* ------------------------------------------------ properties of the resolver

\* C18: the key resolver never returns a key that does not exist in the store:
\* every candidate is confirmed by an existence check before it is used as the
\* current key, and when no candidate exists the result is not a constructed key.
C18_ResolvedKeyExists ==
  pc \in {"probe", "ls_src"} => fileExistsInS3(store, resolved)

\* the script closes the current item and turns to the next one
ItemClosed == pc' \in {"resolve", "summary"} /\ (pairs' # pairs \/ rows' # rows)

\* the script gives up on an item whose source it could not find in the store:
\* the move routine returned SourceMissing, or the dry run found no object
SourceAbsentStep ==
  /\ kind = "script"
  /\ \/ pc = "returned" /\ outcome = "SourceMissing"
     \/ pc = "probe" /\ dryRun /\ ~fileExistsInS3(store, currentKey')
  /\ pc' \notin {"crashed", "done"}

\* C19: when the current key cannot be resolved to an existing object, the item
\* is not fatal: no copy and no delete is issued for it, its catalog pointer is
\* unchanged, it is counted as skipped, and the batch goes on to the next item.
C19_SourceMissingSkipped ==
  [][ /\ (kind = "script" /\ (ops'.copies # ops.copies \/ ops'.deletes # ops.deletes))
           => fileExistsInS3(store, currentKey)
      /\ SourceAbsentStep =>
           /\ store' = store /\ files' = files
           /\ cnt'.skipped = cnt.skipped + 1
           /\ cnt'.moved = cnt.moved /\ cnt'.errors = cnt.errors
           /\ ItemClosed ]_vars

\* ------------------------------------------- properties of the hygiene pass

\* a link row whose file and whose owner both exist
ValidRow(r) == r.file_id \in DOMAIN files /\ r.related_id \in LessonIds

\* the rows of T that link the same file to the same owner in the same slot as r
SameLink(T, r) ==
  {q \in T : q.file_id = r.file_id /\ q.related_id = r.related_id /\ q.field = r.field}

\* the script's loop over the link tables handles table t in this step and
\* none of its statements is rejected
CleansTable(t) ==
  /\ pc \in {"clean_pre", "clean_post"} /\ pc' # "crashed"
  /\ tbl # 0 /\ t = tableNames[tbl]
  /\ t \in DOMAIN links
  /\ faults' = faults

C21_HygieneIdempotent ==
  [][ \A t \in {"files_related_morphs", "files_related_mph"} :
        CleansTable(t) =>
          /\ CleanSteps(links'[t], 3) = links'[t]
          /\ Cardinality(links'[t]) - Cardinality(CleanSteps(links'[t], 3)) = 0
          /\ (CleanSteps(links[t], 3) = links[t]) =>
               (links' = links /\ ops'.linkDeletes = ops.linkDeletes) ]_vars

\* the second of two execute-mode runs with --clean has finished its pass over
\* the tables the first run cleaned, and has removed nothing
C21_Witness ==
  /\ runs = 2 /\ kind = "script" /\ cleanTables /\ ~dryRun /\ ~status.failed
  /\ hist.prev.kind = "script" /\ ~hist.prev.dry /\ hist.prev.ok
  /\ pc \notin {"clean_pre", "crashed"}
  /\ ops.linkDeletes = 0
  /\ DOMAIN links = {"files_related_morphs", "files_related_mph"}
  /\ Cardinality(links["files_related_morphs"]) = 1
  /\ links["files_related_mph"] = {}

\* a row of T that is neither orphaned nor dangling and is the first of its link
KeptRow(T, r) ==
  /\ ValidRow(r)
  /\ \A q \in SameLink(T, r) : q.related_type = r.related_type => q.id >= r.id

C23_HygieneOnly ==
  (kind = "script" /\ cleanTables) =>
    /\ cnt.processed = 0
    /\ ops.copies = 0 /\ ops.deletes = 0 /\ ops.updates = 0

\* C23 for the flag the script has: with --execute --clean the hygiene pass runs
\* first, no file is resolved, copied, deleted or has its pointer updated until
\* it has gone over the link tables, and the relocation pass then runs in the
\* same invocation.
C23_HygieneThenRelocation ==
  [][ (kind = "script" /\ cleanTables /\ ~dryRun) =>
        /\ pc = "clean_pre" =>
             /\ cnt = ZeroCnt /\ ops.copies = 0 /\ ops.deletes = 0 /\ ops.updates = 0
             /\ store' = store /\ files' = files
             /\ pc' \in {"clean_pre", "resolve", "summary", "crashed"}
        /\ (pc \in {"resolve", "probe"} /\ faults = 0) =>
             \A t \in DOMAIN links : CleanSteps(links[t], 3) = links[t] ]_vars

\* a run with --execute --clean has cleaned the tables and then moved a file
C23_Witness ==
  /\ kind = "script" /\ cleanTables /\ ~dryRun /\ pc = "done"
  /\ ops.linkDeletes > 0
  /\ cnt.moved > 0 /\ ops.copies > 0

\* ------------------------------------------------------ the start of main

\* main of the second version: missingVars lists every parameter that is not set
missingVars == Params \ env

\* if (missingVars.length > 0) { ...; process.exit(1) }
ValidateConfig ==
  /\ cli = "start" /\ version = "v2"
  /\ cli' = IF missingVars # {} THEN "exit1" ELSE "validated"
  /\ UNCHANGED <<env, dbUp, version>>
  /\ UNCHANGED <<relocVars, ctxVars, sanVars, listed, moreVars>>

\* main of the first version:
\* if (!config.s3.bucket || !config.s3.region || !config.s3.accessKeyId) process.exit(1)
ValidateConfigV1 ==
  /\ cli = "start" /\ version = "v1"
  /\ cli' = IF \/ "AWS_BUCKET" \notin env
               \/ "AWS_REGION" \notin env
               \/ "AWS_ACCESS_KEY_ID" \notin env
              THEN "exit1" ELSE "validated"
  /\ UNCHANGED <<env, dbUp, version>>
  /\ UNCHANGED <<relocVars, ctxVars, sanVars, listed, moreVars>>

\* try { pool = new Pool(...); await pool.query('SELECT 1') } catch { process.exit(1) }
Connect ==
  /\ cli = "validated"
  /\ cli' = IF dbUp THEN "connected" ELSE "exit1"
  /\ UNCHANGED <<env, dbUp, version>>
  /\ UNCHANGED <<relocVars, ctxVars, sanVars, listed, moreVars>>

\* main of the first version goes on to its batch: the query of the lessons
FetchLessonsV1 ==
  /\ cli = "connected" /\ version = "v1"
  /\ cli' = "batch"
  /\ UNCHANGED <<env, dbUp, version>>
  /\ UNCHANGED <<relocVars, ctxVars, sanVars, listed, moreVars>>

InitCli ==
  /\ (\E w \in Worlds : Idle(w)) /\ NoScopes /\ NoFolders
  /\ env \in SUBSET Params
  /\ dbUp \in BOOLEAN
  /\ version \in {"v1", "v2"}
  /\ cli = "start"
  /\ listed = NotListed
  /\ NoRacers /\ NoReset

NextCli ==
  \/ ValidateConfig
  \/ ValidateConfigV1
  \/ Connect
  \/ FetchLessonsV1
  \/ StartScript
  \/ CleanTable
  \/ Resolve
  \/ Probe
  \/ MvSrc
  \/ MvDst
  \/ MvDedup
  \/ MvCopy
  \/ MvDelete
  \/ Returned
  \/ Summary
  \/ Crash

SpecCli == InitCli /\ [][NextCli]_vars

\* C24: if a required store parameter (bucket, region, access key id, secret) is
\* missing or the catalog is unreachable, main exits with code 1 before any read
\* or mutation of the batch: it never gets past the connection test.
C24_FatalBeforeWork ==
  (env # Params \/ ~dbUp) =>
    /\ cli \in {"start", "validated", "exit1"}
    /\ kind = "none" /\ runs = 0

\* the same of the second version of main alone
C24_FatalBeforeWorkV2 ==
  (version = "v2" /\ (env # Params \/ ~dbUp)) =>
    /\ cli \in {"start", "validated", "exit1"}
    /\ kind = "none" /\ runs = 0

\* ------------------------------------------ the sanitizers on their own

\* sanitizeName of the script applied to a title
sanitizeScript ==
  /\ folder = NoFolder /\ Replaced(lineage) # Null
  /\ folder' = [by |-> "script", token |-> sanitizeName(Replaced(lineage)), path |-> <<>>]
  /\ UNCHANGED <<lineage, relocVars, ctxVars, cliVars, listed, moreVars>>

\* sanitizeName of the lesson routine applied to a title
sanitizeLesson ==
  /\ folder = NoFolder /\ Replaced(lineage) # Null
  /\ folder' = [by |-> "lesson", token |-> sanitizeNameLesson(Replaced(lineage)),
                path |-> <<>>]
  /\ UNCHANGED <<lineage, relocVars, ctxVars, cliVars, listed, moreVars>>

\* sanitizeName of the file hook applied to a title
sanitizeHook ==
  /\ folder = NoFolder /\ Replaced(lineage) # Null
  /\ folder' = [by |-> "hook", token |-> sanitizeNameHook(Replaced(lineage)), path |-> <<>>]
  /\ UNCHANGED <<lineage, relocVars, ctxVars, cliVars, listed, moreVars>>

NextToken ==
  \/ sanitizeScript
  \/ sanitizeLesson
  \/ sanitizeHook

SpecToken == InitSan /\ [][NextToken]_vars

\* lowercase, only characters of [a-z0-9-_.], no white space, no two hyphens in a row
Canonical(t) ==
  /\ \A i \in DOMAIN t : t[i] \in LowerLetters \cup Digits \cup {"-", "_", "."}
  /\ \A i \in 1..(Len(t) - 1) : ~(t[i] = "-" /\ t[i + 1] = "-")

\* C25: for every input string the output of the sanitizer (of the script, of the
\* lesson routine, of the file hook) is lowercase, contains only characters of
\* [a-z0-9-_.], no white space and no two consecutive hyphens.
C25_SanitizerAlphabet ==
  folder # NoFolder => Canonical(folder.token)

\* the same of the sanitizers of the script and of the lesson routine alone
C25_SanitizerAlphabetLower ==
  (folder # NoFolder /\ folder.by # "hook") => Canonical(folder.token)

\* ------------------------------------------------ the target key, built twice

\* the keys file 1 may be stored under when its target key is built
CurrentKeys == UNION {p.objs : p \in Placements(1)}

\* two values of Date.now()
CallTimes == {<<"7">>, <<"8">>}

\* main of the script builds newKey for the same lesson and the same file row
\* twice, the object being stored under cur1 and under cur2; folder.token holds
\* the key of the first call and folder.path the key of the second
scriptKey ==
  /\ folder = NoFolder
  /\ \E p \in Placements(1), cur1 \in CurrentKeys, cur2 \in CurrentKeys :
       folder' = [by |-> "script",
                  token |-> ScriptNewKey(lineage, FileRow(1, p), cur1),
                  path |-> ScriptNewKey(lineage, FileRow(1, p), cur2)]
  /\ UNCHANGED <<lineage, relocVars, ctxVars, cliVars, listed, moreVars>>

\* upload of the provider builds key for the same file and the same context
\* twice, Date.now() returning t1 and t2
providerKey ==
  /\ folder = NoFolder
  /\ \E file \in UploadFiles, c \in Entries \cup {NullCtx}, t1 \in CallTimes, t2 \in CallTimes :
       folder' = [by |-> "provider",
                  token |-> uploadKey(c, file, t1),
                  path |-> uploadKey(c, file, t2)]
  /\ UNCHANGED <<lineage, relocVars, ctxVars, cliVars, listed, moreVars>>

NextKey ==
  \/ scriptKey
  \/ providerKey

SpecKey == InitSan /\ [][NextKey]_vars

\* C26: the target key of a file is a function of its lineage and file name
\* only: built twice for the same lineage and the same file, at different times
\* and with the object stored under different keys, it is the same key.
C26_KeyOfLineageAndName ==
  folder # NoFolder => folder.token = folder.path

\* the same of a file that is stored outside every folder, or uploaded with a hash
C26_KeyOfLineageAndNameFlat ==
  [][ /\ scriptKey =>
           \A p \in Placements(1), cur1 \in CurrentKeys, cur2 \in CurrentKeys :
             (~includes(cur1, <<"/">>) /\ ~includes(cur2, <<"/">>)) =>
               ScriptNewKey(lineage, FileRow(1, p), cur1) = ScriptNewKey(lineage, FileRow(1, p), cur2)
      /\ providerKey =>
           \A file \in UploadFiles, c \in Entries, t1 \in CallTimes, t2 \in CallTimes :
             file.hash # Null => uploadKey(c, file, t1) = uploadKey(c, file, t2) ]_vars

\* ------------------------------------------- the order of the resolver

Unset(k) == k = Null \/ k = <<>>

\* C27: the key resolver tries its strategies in the fixed order stored metadata
\* key, URL-derived key, hash-plus-extension key, bounded listing search, and a
\* later strategy is tried only if every earlier one produced no key: a stored
\* or URL-derived key is the result without any call to the store, the listing
\* search is made only when the hash-plus-extension key is not in the store, and
\* the lesson routine follows the same order up to the hash-plus-extension key.
C27_ResolverOrder ==
  [][ /\ (kind = "script" /\ pc = "resolve" /\ pc' # "crashed") =>
           LET row == Head(rows)
               hashKey == row.hash \o row.ext
               foundKey == findFileInS3(store, row.hash, row.name)
           IN  /\ ~Unset(row.key) => (resolved' = row.key /\ faults' = faults)
               /\ (Unset(row.key) /\ ~Unset(row.url)) =>
                    (resolved' = row.url /\ faults' = faults)
               /\ (Unset(row.key) /\ Unset(row.url) /\ faults' = faults) =>
                    resolved' = IF hashKey \in DOMAIN store THEN hashKey
                                ELSE IF foundKey # Null THEN foundKey ELSE hashKey
               /\ (Unset(row.key) /\ Unset(row.url) /\ faults' # faults
                     /\ hashKey \in DOMAIN store) => status'.aborted
      /\ (kind = "lesson" /\ pc = "ls_resolve" /\ pc' # "crashed") =>
           LET row == Head(rows)
           IN  resolved' = IF ~Unset(row.key) THEN row.key
                           ELSE IF ~Unset(row.url) THEN row.url
                           ELSE row.hash \o row.ext ]_vars

\* the script has resolved, by the listing search, a file that has neither a
\* stored key nor a url and whose hash-plus-extension key is not in the store
C27_Witness ==
  /\ kind = "script" /\ pc = "probe"
  /\ Unset(Head(rows).key) /\ Unset(Head(rows).url)
  /\ Head(rows).hash \o Head(rows).ext \notin DOMAIN store
  /\ resolved = <<"z", "/">> \o Hash(1) \o Ext

\* ------------------------------------------------------ the listing search

DigitChars == <<"0", "1", "2", "3", "4", "5", "6", "7", "8", "9">>

\* the key of the i-th object of the bucket, in the order ListObjectsV2 lists them
ListedKey(i, hit) ==
  <<"k", DigitChars[((i \div 10000) % 10) + 1], DigitChars[((i \div 1000) % 10) + 1],
         DigitChars[((i \div 100) % 10) + 1], DigitChars[((i \div 10) % 10) + 1],
         DigitChars[(i % 10) + 1]>>
    \o (IF hit THEN <<"-">> \o Hash(1) ELSE <<>>)

Listing(size, hits) == [i \in 1..size |-> ListedKey(i, i \in hits)]

\* bucket sizes around a page and around the limit of the search
Sizes == {0, 1, maxResults, maxResults + 1, searchLimit - 1, searchLimit, searchLimit + 1,
          searchLimit + maxResults, searchLimit + maxResults + 1, searchLimit + 2 * maxResults}

\* where the hash occurs in the listing
HitSets ==
  {{}} \cup {{h} : h \in Sizes \ {0}} \cup {{h, h + 2} : h \in {1, maxResults, searchLimit}}

\* findFileInS3 when no object has the key hash + extension: the listing is searched
searchListing ==
  /\ ~listed.done
  /\ LET listing == Listing(listed.size, listed.hits)
     IN  listed' = [listed EXCEPT !.done = TRUE,
                                  !.key = ScanPages(listing, 1, 0, Hash(1)),
                                  !.checked = ScanChecked(listing, 1, 0, Hash(1))]
  /\ UNCHANGED <<relocVars, ctxVars, sanVars, cliVars, moreVars>>

InitSearch ==
  /\ Idle(CHOOSE w \in Worlds : TRUE) /\ NoScopes /\ NoFolders
  /\ env = Params /\ dbUp = TRUE /\ version = "v2" /\ cli = "connected"
  /\ \E n \in Sizes, hs \in HitSets :
       /\ \A h \in hs : h <= n
       /\ listed = [size |-> n, hits |-> hs, done |-> FALSE, key |-> Null, checked |-> 0]
  /\ NoRacers /\ NoReset

NextSearch == searchListing

SpecSearch == InitSearch /\ [][NextSearch]_vars

\* the first listed key that contains the hash, Null when none does
FirstHit(size, hits) == IF hits = {} THEN Null ELSE ListedKey(SetMin(hits), TRUE)

\* C28: the listing search terminates and examines at most 10,000 store entries in
\* one invocation, whatever the number of objects and pages in the store; it
\* returns the first listed key containing the content hash, or nothing.
C28_SearchBounded ==
  listed.done =>
    /\ listed.checked <= searchLimit
    /\ listed.key \in {FirstHit(listed.size, listed.hits), Null}

\* the bound the loop keeps: the page in which the limit is passed is examined whole
C28_SearchBoundedByPage ==
  listed.done =>
    /\ listed.checked <= searchLimit + maxResults
    /\ listed.key \in {FirstHit(listed.size, listed.hits), Null}
    /\ (listed.hits # {} /\ SetMin(listed.hits) <= searchLimit + maxResults) =>
         listed.key = FirstHit(listed.size, listed.hits)

\* ------------------------------------- a failure inside the hygiene pass

\* a statement of the hygiene pass is rejected in this step
CleanFailure == pc \in {"clean_pre", "clean_post"} /\ pc' # "crashed" /\ faults' = faults + 1

\* C29: a failure while cleaning one link table (a delete statement rejected) is
\* logged, does not prevent the hygiene pass from cleaning the remaining table,
\* and does not prevent the relocation pass from running in the same invocation.
C29_HygieneFailureContained ==
  [][ /\ CleanFailure =>
           /\ status'.failed /\ ~status'.aborted
           /\ tbl < Len(tableNames) => (pc' = pc /\ tbl' = tbl + 1)
           /\ (tbl = Len(tableNames) /\ pc = "clean_pre") => pc' \in {"resolve", "summary"}
      /\ (pc = "clean_pre" /\ status.failed /\ tbl = Len(tableNames) /\ faults' = faults) =>
           /\ \A t \in DOMAIN links : t = tableNames[tbl] => CleanSteps(links'[t], 3) = links'[t]
           /\ pc' \in {"resolve", "summary"} ]_vars

\* the first table was left as it was by a rejected statement, the second one was
\* cleaned, and the run went on to move a file
C29_Witness ==
  /\ kind = "script" /\ cleanTables /\ ~dryRun /\ pc = "done"
  /\ status.failed /\ ~status.aborted
  /\ DOMAIN links = {"files_related_morphs", "files_related_mph"}
  /\ CleanSteps(links["files_related_morphs"], 3) # links["files_related_morphs"]
  /\ CleanSteps(links["files_related_mph"], 3) = links["files_related_mph"]
  /\ ops.linkDeletes > 0
  /\ cnt.moved > 0

\* --------------------------------------- the two passes of one invocation

raceFrame == <<links, kind, arg, dryRun, cleanTables, pc, tbl, pairs, rows, currentKey, newKey,
               resolved, outcome, cnt, ops, status, runs, faults, hist>>

\* moveFileInS3: where the move goes after the check of the destination
\* the copy skipped: the source deleted at once
AfterDestCheckDelete(destExists) == "delete"
AfterDestCheck(destExists) == IF destExists THEN "dedup" ELSE "copy"

\* const sourceExists = await fileExistsInS3(oldKey); if (!sourceExists) return false
RcSrc(r) ==
  /\ racers.at[r] = "src"
  /\ racers' = [racers EXCEPT !.at[r] = IF fileExistsInS3(store, racers.src)
                                          THEN "dst" ELSE "skipped"]
  /\ UNCHANGED <<store, files>>

\* const destExists = await fileExistsInS3(newKey)
RcDst(r) ==
  /\ racers.at[r] = "dst"
  /\ racers' = [racers EXCEPT !.at[r] = AfterDestCheck(fileExistsInS3(store, racers.dst))]
  /\ UNCHANGED <<store, files>>

\* if (destExists) { if (oldKey !== newKey) delete oldKey; return true }
RcDedup(r) ==
  /\ racers.at[r] = "dedup"
  /\ store' = IF racers.src # racers.dst THEN DeleteObject(store, racers.src) ELSE store
  /\ racers' = [racers EXCEPT !.at[r] = "update"]
  /\ UNCHANGED files

\* CopyObjectCommand: rejected (NoSuchKey) when the source is gone, and the
\* catch of main counts an error
RcCopy(r) ==
  /\ racers.at[r] = "copy"
  /\ IF fileExistsInS3(store, racers.src)
       THEN /\ store' = CopyObject(store, racers.src, racers.dst)
            /\ racers' = [racers EXCEPT !.at[r] = "delete"]
       ELSE /\ store' = store
            /\ racers' = [racers EXCEPT !.at[r] = "error"]
  /\ UNCHANGED files

\* DeleteObjectCommand of the old key
RcDelete(r) ==
  /\ racers.at[r] = "delete"
  /\ store' = DeleteObject(store, racers.src)
  /\ racers' = [racers EXCEPT !.at[r] = "update"]
  /\ UNCHANGED files

\* if (moved) UPDATE files SET url, provider_metadata
RcUpdate(r) ==
  /\ racers.at[r] = "update"
  /\ files' = UpdatePointer(files, 1, racers.dst)
  /\ racers' = [racers EXCEPT !.at[r] = "moved"]
  /\ UNCHANGED store

RaceStep(r) == RcSrc(r) \/ RcDst(r) \/ RcDedup(r) \/ RcCopy(r) \/ RcDelete(r) \/ RcUpdate(r)

RcRun1 == RaceStep(1) /\ UNCHANGED <<raceFrame, ctxVars, sanVars, cliVars, listed, reset>>

RcRun2 == RaceStep(2) /\ UNCHANGED <<raceFrame, ctxVars, sanVars, cliVars, listed, reset>>

\* both runs have resolved file 1 of lesson 1 from the same catalog row: the
\* object lies under the key the row names, outside its target
InitRace ==
  /\ \E w \in Worlds :
       /\ Idle(w)
       /\ ~Unset(w.files[1].key)
       /\ w.files[1].key \in DOMAIN w.store
       /\ ScriptNewKey(Lessons[1], w.files[1], w.files[1].key) # w.files[1].key
       /\ racers = [src |-> w.files[1].key,
                    dst |-> ScriptNewKey(Lessons[1], w.files[1], w.files[1].key),
                    at |-> [r \in Runs |-> "src"]]
  /\ NoScopes /\ NoFolders
  /\ env = Params /\ dbUp = TRUE /\ version = "v2" /\ cli = "connected"
  /\ listed = NotListed /\ NoReset

NextRace == RcRun1 \/ RcRun2

SpecRace == InitRace /\ [][NextRace]_vars

Finished(r) == racers.at[r] \in {"skipped", "error", "moved"}

\* the content of file 1 is in the store under key k
Holds(k) == k \in DOMAIN store /\ store[k] = 1

\* C31: for any interleaving of two runs that relocate the same object with the
\* same source and destination keys, the object is never lost (its content is
\* at the source key or at the destination key in every reachable state) and,
\* once both runs have finished, the object is at the destination key, the
\* source key is absent and the catalog pointer equals the destination key.
C31_RaceSafe ==
  /\ Holds(racers.src) \/ Holds(racers.dst)
  /\ (\A r \in Runs : Finished(r)) =>
       /\ Holds(racers.dst)
       /\ racers.src \notin DOMAIN store
       /\ files[1].key = racers.dst

\* both runs passed the check of the source before either copied; one of them
\* then found its source gone, and both have finished
C31_Witness ==
  /\ racers.at[1] = "moved" /\ racers.at[2] = "error"
  /\ Holds(racers.dst) /\ files[1].key = racers.dst

\* ------------------------------------------------ one relocate at a time

\* the keys whose object was created, removed or replaced in this step
Touched ==
  {k \in DOMAIN store \cup DOMAIN store' :
     \/ k \notin DOMAIN store \/ k \notin DOMAIN store'
     \/ store[k] # store'[k]}

\* the step leaves the current file for the next one, or for the end of the pass
LeavesItem == rows' # rows \/ pairs' # pairs

\* C32: within one batch run at most one relocate is in flight at any time: the
\* store calls (existence checks, copy, delete) and the pointer update of one
\* file all complete or fail before the first store call for the next file is
\* issued: every store or pointer change of a step is a change of the file the
\* run is at, and when the run leaves a file it starts the next one from its
\* resolution, with no call of the file it left outstanding.
C32_OneRelocateInFlight ==
  [][ (kind \in {"script", "lesson"} /\ kind' = kind /\ runs' = runs
         /\ pc \notin {"clean_pre", "clean_post", "summary", "done", "crashed", "idle"}
         /\ pc' # "crashed") =>
        /\ Touched \subseteq {currentKey, newKey}
        /\ Touched # {} => (pc \in MovePcs /\ currentKey' = currentKey /\ newKey' = newKey)
        /\ \A f \in DOMAIN files : files'[f] # files[f] => (f = Head(rows).id /\ pc \in MovePcs)
        /\ LeavesItem => pc' \in {"resolve", "ls_resolve", "summary", "done"}
        /\ pc' \in MovePcs => (~LeavesItem /\ pc \in MovePcs \cup {"resolve", "ls_resolve"}) ]_vars

\* the script has moved the first of two files of a lesson and is between the
\* copy and the delete of the second one
C32_Witness ==
  /\ kind = "script" /\ ~dryRun
  /\ cnt.processed = 2 /\ cnt.moved = 1 /\ ops.updates = 1
  /\ pc = "mv_delete" /\ ops.copies = 2

\* ------------------------------------------------ the counters of a pass

\* the pass has run to its summary
AtSummary ==
  \/ kind = "script" /\ pc = "summary"
  \/ kind = "lesson" /\ pc = "done" /\ ~status.aborted

\* C33: at the end of every relocation pass that runs to its summary the
\* counters satisfy processed = moved + skipped + errored: every processed file
\* increments exactly one of the three outcome counters, in dry-run and in
\* execute mode.
C33_CountersAddUp ==
  AtSummary => cnt.processed = cnt.moved + cnt.skipped + cnt.errors

\* the same of the script alone
C33_CountersAddUpScript ==
  (kind = "script" /\ pc = "summary") => cnt.processed = cnt.moved + cnt.skipped + cnt.errors

\* ------------------------------------------------- the object of a relocate

\* the content of file f is in st under one of the two keys of its relocate
Kept(st, f, src, dst) ==
  \/ src \in DOMAIN st /\ st[src] = f
  \/ dst \in DOMAIN st /\ st[dst] = f

\* C34: during a relocate the object is never lost: in every intermediate state,
\* including after a failure or crash at any step, the content of the file is in
\* the store at the source key or at the destination key.
C34_ObjectNeverLost ==
  [][ (pc \in MovePcs /\ rows # <<>> /\ Kept(store, Head(rows).id, currentKey, newKey))
        => Kept(store', Head(rows).id, currentKey, newKey) ]_vars

\* the same of the relocates whose destination does not hold another file
C34_ObjectNeverLostFreeDestination ==
  [][ ( /\ pc \in MovePcs /\ rows # <<>>
        /\ Kept(store, Head(rows).id, currentKey, newKey)
        /\ newKey \in DOMAIN store => store[newKey] = Head(rows).id )
        => Kept(store', Head(rows).id, currentKey, newKey) ]_vars

\* --------------------------------------------------- content preservation

\* the content of file f is in st under some key
HasContent(st, f) == \E k \in DOMAIN st : st[k] = f

\* every pointer that names an object names the file's own content, and no two
\* files are recorded under the same key
PointersSound(st, fs) ==
  /\ \A f \in DOMAIN fs : fs[f].key \in DOMAIN st => st[fs[f].key] = f
  /\ \A f, g \in DOMAIN fs : (f # g /\ ~Unset(fs[f].key)) => fs[f].key # fs[g].key

\* C35: content preservation: after any execute-mode relocation pass, for every
\* file the content stored at the key its catalog pointer names is the content
\* that file had before the pass; when two distinct files map to the same target
\* key the destination-exists branch never deletes the only copy of one file's
\* content and never leaves two files' pointers naming the same key.
C35_ContentPreserved ==
  [][ (kind \in {"script", "lesson"} /\ ~dryRun /\ kind' = kind /\ runs' = runs) =>
        /\ \A f \in DOMAIN files : HasContent(store, f) => HasContent(store', f)
        /\ (PointersSound(store, files) /\ pc' \in {"summary", "done"}) =>
             PointersSound(store', files') ]_vars

\* ------------------------------------------------ the rerun after a crash

\* C36: after a run died inside the relocate of a file (the point after the source
\* delete and before the pointer update included), a subsequent complete execute-mode
\* run of the routine ends with the file's pointer naming the key under which the
\* file's object is stored.
C36_PointerFollowsObject ==
  ( /\ CompleteRun
    /\ hist.dueCut # NoRec
    /\ Rerun(hist.dueCut)
    /\ HasContent(store, hist.dueCut.f) )
  => /\ fileExistsInS3(store, files[hist.dueCut.f].key)
     /\ store[files[hist.dueCut.f].key] = hist.dueCut.f

\* ------------------------------------------- provider and reconciler, one folder

\* every level of the lineage carries a title
Titled(l) == \A i \in 1..3 : Levels(l)[i] \notin {Null, <<>>}

\* C37: for every lesson with a course, a module and a lesson title, the folder the
\* reconciler (the script, reorganizeLessonFiles) computes for the lineage equals the
\* folder getFolderPath of the upload provider computes for it.
C37_ProviderAndReconcilerAgree ==
  (folder.by \in {"script", "lesson"} /\ Titled(lineage)) => folder.path = folderPath(lineage)

\* ------------------------------------------- the missing-file reset script

\* const mediaFields = [...]
mediaFields == <<"student_file", "homework_file", "teacher_file", "ppt_file">>

\* const relationTables = [...]
relationTables == <<"files_related_morphs", "files_related_mph">>

resetFrame == <<store, files, kind, arg, dryRun, cleanTables, pc, tbl, pairs, rows, currentKey,
                newKey, resolved, outcome, cnt, ops, status, runs, faults, hist>>

\* the first relation table that exists, "none" when there is none
relationTable ==
  LET have == {i \in 1..Len(relationTables) : relationTables[i] \in DOMAIN links}
  IN  IF have = {} THEN "none" ELSE relationTables[SetMin(have)]

\* the key main resolves for a row: provider_metadata.key, else the key in the url, else
\* hash + ext, else none (url holds the key extractKeyFromUrl finds in it, as in CatalogKey)
resetKey(row) ==
  IF ~Unset(row.key) THEN row.key
  ELSE IF ~Unset(row.url) THEN row.url
  ELSE IF ~Unset(row.hash) THEN row.hash \o OrElse(row.ext, <<>>)
  ELSE Null

\* what a HeadObjectCommand for the key can come to: the answer of the store, or a failure
\* that is not a 404 (permissions, network)
HeadObject(st, key) == {IF key \in DOMAIN st THEN "200" ELSE "404", "error"}

\* every failure of the HEAD taken for a missing object
s3ExistsAnyError(key, head) ==
  IF Unset(key) THEN "false"
  ELSE IF head = "200" THEN "true" ELSE "false"

\* s3Exists(key): false without a call when there is no key; true on an answer; false
\* on NotFound / 404; every other error rethrown
s3Exists(key, head) ==
  IF Unset(key) THEN "false"
  ELSE IF head = "200" THEN "true"
  ELSE IF head = "404" THEN "false"
  ELSE "throw"

\* the rows of a SELECT without ORDER BY, in any order
Orderings(S) ==
  {q \in [1..Cardinality(S) -> S] : \A i, j \in 1..Cardinality(S) : i # j => q[i] # q[j]}

\* the rows the query of one media field returns: the lesson links of the field, joined
\* to their file
FieldLinks(fld) ==
  {r \in links[reset.table] : /\ r.related_type = LessonType
                              /\ r.field = mediaFields[fld]
                              /\ r.file_id \in DOMAIN files}

\* main up to the loop: the configuration, the connection test, the relation table
RsStart(x) ==
  /\ reset.pc = "idle"
  /\ reset' = IF missingVars # {} \/ ~dbUp \/ relationTable = "none"
                THEN [reset EXCEPT !.pc = "exit1", !.execute = x]
                ELSE [reset EXCEPT !.pc = "field", !.execute = x, !.table = relationTable,
                                   !.fld = 1]
  /\ UNCHANGED <<links, resetFrame, ctxVars, sanVars, cliVars, listed, racers>>

\* for (const field of mediaFields): the query of the field, or the summary after the last
RsQuery ==
  /\ reset.pc = "field"
  /\ IF reset.fld > Len(mediaFields)
       THEN reset' = [reset EXCEPT !.pc = "done"]
       ELSE \E q \in Orderings(FieldLinks(reset.fld)) :
              reset' = IF q = <<>> THEN [reset EXCEPT !.fld = @ + 1]
                       ELSE [reset EXCEPT !.todo = q, !.pc = "row"]
  /\ UNCHANGED <<links, resetFrame, ctxVars, sanVars, cliVars, listed, racers>>

\* one row: its key resolved and s3Exists called
RsCheck ==
  /\ reset.pc = "row"
  /\ LET key == resetKey(files[Head(reset.todo).file_id])
     IN  \E h \in (IF Unset(key) THEN {"none"} ELSE HeadObject(store, key)) :
           reset' = [reset EXCEPT !.pc = "checked", !.key = key, !.head = h,
                                  !.answer = s3Exists(key, h),
                                  !.totalChecked = @ + 1]
  /\ UNCHANGED <<links, resetFrame, ctxVars, sanVars, cliVars, listed, racers>>

\* the rest of the row's turn: continue after an error or a hit; count the missing
\* object; in execute mode delete the link row
RsDetach ==
  /\ reset.pc = "checked"
  /\ LET row == Head(reset.todo)
         gone == {r \in links[reset.table] : r.id = row.id}
         next == [reset EXCEPT !.todo = Tail(@),
                               !.pc = IF Tail(reset.todo) = <<>> THEN "field" ELSE "row",
                               !.fld = IF Tail(reset.todo) = <<>> THEN @ + 1 ELSE @]
     IN  IF reset.answer # "false"
           THEN reset' = next /\ links' = links
           ELSE IF ~reset.execute
             THEN reset' = [next EXCEPT !.totalMissing = @ + 1] /\ links' = links
             ELSE /\ links' = [links EXCEPT ![reset.table] = @ \ gone]
                  /\ reset' = [next EXCEPT !.totalMissing = @ + 1,
                                           !.totalDetached = @ + Cardinality(gone)]
  /\ UNCHANGED <<resetFrame, ctxVars, sanVars, cliVars, listed, racers>>

\* the objects of file 1 deleted from the bucket
ObjectsDeleted(w) ==
  [w EXCEPT !.store = [k \in {j \in DOMAIN w.store : w.store[j] # 1} |-> w.store[k]]]

\* the worlds of the relocation; each with the objects of file 1 deleted; each with a
\* file 1 whose row gives no key at all
ResetWorlds ==
  Worlds \cup {ObjectsDeleted(w) : w \in Worlds}
         \cup {[w EXCEPT !.files[1] = [@ EXCEPT !.key = Null, !.url = Null, !.hash = Null]] :
                 w \in Worlds}

InitReset ==
  /\ (\E w \in ResetWorlds : Idle(w)) /\ NoScopes /\ NoFolders
  /\ env \in {Params, Params \ {"AWS_ACCESS_SECRET"}}
  /\ dbUp \in BOOLEAN
  /\ version = "v2" /\ cli = "start"
  /\ listed = NotListed
  /\ NoRacers /\ NoReset

NextReset ==
  \/ \E x \in BOOLEAN : RsStart(x)
  \/ RsQuery
  \/ RsCheck
  \/ RsDetach

SpecReset == InitReset /\ [][NextReset]_vars

\* C38: in the reset script a link row is deleted only in execute mode, only the row
\* at hand, and only when s3Exists reported its key absent (a 404, or no key to ask
\* for); after any other error of the check the link is kept, and in dry-run mode no
\* link row is deleted.
C38_DetachOnlyMissing ==
  [][ /\ links' # links =>
           /\ reset.execute
           /\ reset.pc = "checked"
           /\ reset.head \in {"404", "none"}
           /\ reset.head = "404" => reset.key \notin DOMAIN store
           /\ links' = [links EXCEPT ![reset.table] = @ \ {Head(reset.todo)}]
      /\ (reset.pc = "checked" /\ reset.head = "error") => links' = links
      /\ ~reset.execute' => links' = links ]_vars

\* an execute run has finished: it detached a link, and kept the link of a file whose
\* check failed although the object is missing
C38_Witness ==
  /\ reset.pc = "done" /\ reset.execute
  /\ reset.totalDetached >= 1
  /\ reset.totalChecked > reset.totalMissing
  /\ \E r \in links[reset.table] :
       /\ r.related_type = LessonType /\ r.file_id \in DOMAIN files
       /\ resetKey(files[r.file_id]) \notin DOMAIN store

\* ------------------------------------------------ the sanitizers, applied twice

\* C39: each sanitizer (of the script, of reorganizeLessonFiles, of the provider) is
\* idempotent: applied to its own output it returns that output.
C39_SanitizerIdempotent ==
  /\ folder.by = "script" => sanitizeName(folder.token) = folder.token
  /\ folder.by = "lesson" => sanitizeNameLesson(folder.token) = folder.token
  /\ folder.by = "provider" => sanitize(folder.token) = folder.token

=============================================================================
